---- MODULE Spec2Model ----
(***************************************************************************)
(* Verification model of get-out: the export orchestrator                  *)
(* (Exporter.ExportAll / ExportConversation), the export index             *)
(* (ExportIndex, Load/Save), the folder/document provisioning              *)
(* (FolderStructure, gdrive.Client) and the paginated Slack history fetch  *)
(* (slackapi.Client.GetAllMessages).                                       *)
(*                                                                         *)
(* Conventions.  A Slack timestamp is a positive integer; the empty        *)
(* timestamp "" is 0.  A calendar date is the integer day number of a      *)
(* timestamp.  A Drive identifier is the pair that find-or-create resolves *)
(* (parent, name); the empty identifier "" is the empty tuple.             *)
(* The conversations exported in the orchestrator specification carry no   *)
(* thread parents (reply_count = 0 for every message).                     *)
(***************************************************************************)
EXTENDS Integers, Sequences, FiniteSets, TLC

\* ------------------------------------------------------------------ bounds
Convs == {"c1", "c2"}

MaxTS == 3

DayLen == 2

PageLimit == 2

MaxRuns == 2

\* Conversations given to a parallel export, and the largest parallelism asked.
NumPoolConvs == 6

MaxRequested == 7

\* Find-or-create calls one process makes.
MaxCalls == 3

\* Timestamps of the conversation with threads, and export runs over it.
MaxThreadTS == 3

MaxThreadRuns == 2

\* ------------------------------------------------------------- basic types
NoTS == 0

NoID == <<>>

NoDate == -1

TSs == 1 .. MaxTS

\* tsToDate / DateFromTS: the calendar day holding second ts.
DateFromTS(ts) == ts \div DayLen

Dates == {DateFromTS(t) : t \in TSs}

\* parseDateFlag: a YYYY-MM-DD flag becomes the timestamp of that day's start.
parseDateFlag(d) == IF d = NoDate THEN NoTS ELSE d * DayLen

\* runExport: --to is moved to the end of its day (start + 86400 - 1).
endOfDay(ts) == IF ts = NoTS THEN NoTS ELSE ts + DayLen - 1

\* ------------------------------------------------------- sequence helpers
Max(S) == CHOOSE x \in S : \A y \in S : y <= x

Min(S) == CHOOSE x \in S : \A y \in S : x <= y

RECURSIVE SortDesc(_)
SortDesc(S) == IF S = {} THEN <<>> ELSE <<Max(S)>> \o SortDesc(S \ {Max(S)})

RECURSIVE SortAsc(_)
SortAsc(S) == IF S = {} THEN <<>> ELSE <<Min(S)>> \o SortAsc(S \ {Min(S)})

Range(s) == {s[i] : i \in 1 .. Len(s)}

Prefix(s, n) == SubSeq(s, 1, IF n < Len(s) THEN n ELSE Len(s))

\* sort.Slice(sorted, TS ascending) of a message slice (duplicates kept).
RECURSIVE SortSeqAsc(_)
SortSeqAsc(s) ==
    IF s = <<>> THEN <<>>
    ELSE LET m == Min(Range(s))
         IN  SelectSeq(s, LAMBDA t : t = m) \o SortSeqAsc(SelectSeq(s, LAMBDA t : t # m))

\* ------------------------------------------------------------ export index
\* DocExport{DocID, LastMessageTS, MessageCount}; NoDoc is a nil *DocExport.
NoDoc == [DocID |-> NoID, LastMessageTS |-> NoTS, MessageCount |-> 0]

\* ConversationExport; NoConv is an id absent from ExportIndex.Conversations.
NoConv == [FolderID |-> NoID, Status |-> "", DailyDocs |-> [d \in Dates |-> NoDoc],
           LastMessageTS |-> NoTS, MessageCount |-> 0]

\* NewExportIndex: no root folder, an empty Conversations map.
NewExportIndex == [RootFolderID |-> NoID, Conversations |-> [c \in Convs |-> NoConv]]

VARIABLES
    slack,        \* Slack server: conversation -> set of message timestamps
    driveFolders, \* Drive: set of conversation folders that exist
    driveDocs,    \* Drive: document id -> sequence of message ts in the body
    disk,         \* the index file: [state, idx]
    pc,           \* position of the export process
    index,        \* Exporter.index (in memory)
    syncMode, dateFrom, dateTo, exportResume,  \* options of the running export
    queue,        \* conversations ExportAll still has to export
    cur,          \* conversation being exported (or exported last)
    cursor,       \* HistoryOptions.Cursor
    oldest, latest, \* fetch range of the current conversation
    allMessages,  \* messages fetched so far, in arrival order
    dates,        \* dates of the day loop still to be written
    results,      \* ExportResult per conversation of this run
    runs,         \* number of export runs started
    preSave,      \* history: content of the index file when Save began
    written,      \* history: dates written by the current conversation export
    toExport,     \* the conversation list given to ExportAll
    cancelled,    \* the run's context is cancelled (interrupt received)
    exit          \* how the last run of runExport ended ("none": still running)

\* The variables of the export orchestrator.
orchVars == <<slack, driveFolders, driveDocs, disk, pc, index, syncMode, dateFrom, dateTo,
              exportResume, queue, cur, cursor, oldest, latest, allMessages, dates, results,
              runs, preSave, written, toExport, cancelled, exit>>

VARIABLES
    \* ExportAllParallel (worker pool over conversations)
    poolPc,       \* "idle", "running" or "returned"
    maxParallel,  \* the parallelism the caller requested
    convState,    \* conversation -> "pending", "running", "ok" or "error"
    \* Client.GetAllMessages (one paginated fetch)
    fpc,          \* "idle", "request", "wait" or "returned"
    fchan,        \* channelID
    fopts,        \* HistoryOptions: [Oldest, Cursor]
    fbatches,     \* the batches passed to the callback, in order
    flast,        \* the answer to the last request
    fret,         \* the error GetAllMessages returned (NoErr: nil)
    fctx,         \* the fetch's context is cancelled
    fretried,     \* history: a request of this fetch was rate limited
    \* gdrive.Client find-or-create calls of one process
    files,        \* Drive: the set of files [id, kind, name, parent]
    dcall,        \* the find-or-create call in progress
    dlog          \* history: the calls that returned, in order

VARIABLES
    \* date keys and link lookup (tsToDate, GroupMessagesByDate, LookupDocURL)
    zone,         \* UTC offset, in seconds, of the machine's local time zone
    dateIndex,    \* ExportIndex.Conversations: id -> [FolderURL, DailyDocs]
    dateDocs,     \* Drive: document URL -> the timestamps written to it
    dlook         \* the last LookupDocURL call: [conv, ts, url]

dateVars == <<zone, dateIndex, dateDocs, dlook>>

VARIABLES
    \* ExportConversation over a conversation with threads
    tslack,       \* Slack server: ts -> [k, p] (absent, main, reply of p)
    tpc,          \* "idle", "main" or "threads"
    tall,         \* allMessages of the run (or of the last run)
    tparents,     \* thread parents still to export
    tindex,       \* ConversationExport.Threads: parent ts -> ThreadExport
    tdocs,        \* Drive: document -> its message blocks [TS, Link]
    truns,        \* number of export runs started
    tdisk         \* the thread entries of the index file

threadVars == <<tslack, tpc, tall, tparents, tindex, tdocs, truns, tdisk>>

VARIABLES
    \* conversation folders and daily documents on the Drive
    fcfg,         \* conversations.json: id -> [Type, Name]
    ffiles,       \* Drive: the set of files [id, kind, name, parent]
    findex,       \* ExportIndex: [RootFolderID, Conversations]
    fwriters      \* history: the pairs <<document id, conversation that wrote to it>>

folderVars == <<fcfg, ffiles, findex, fwriters>>

VARIABLES
    \* the export index and its lock
    mu,           \* ExportIndex.mu: [writer, readers]
    lpc,          \* each export worker's position in ExportConversation
    lidx,         \* ExportIndex.Conversations: the fields of each entry
    lfile,        \* the index file as Save last wrote it
    laccess       \* history: every access to an index field, with the lock held

lockVars == <<mu, lpc, lidx, lfile, laccess>>

VARIABLES
    \* one Google document and the batch updates sent to it
    gdoc,         \* the text of the document body, a UTF-16 unit per element
    gbatch        \* the last batch: its input, its requests, the text before it

docVars == <<gdoc, gbatch>>

VARIABLES
    \* two workers in find-or-create on one Drive
    rargs,        \* the (kind, name, parent) both workers ask for
    rfiles,       \* Drive: the set of files
    rcall         \* each worker's call: its position and what it returned

raceVars == <<rargs, rfiles, rcall>>

VARIABLES
    \* the checkpoint of package util
    ckmu,         \* Checkpoint.mu: its holder, or none
    ckpc,         \* the position of the goroutine that uses the checkpoint
    ckdata,       \* Checkpoint.data and Checkpoint.dirty
    ckfile,       \* the checkpoint file
    ckcalls       \* number of UpdateConversation calls made

ckVars == <<ckmu, ckpc, ckdata, ckfile, ckcalls>>

poolVars == <<poolPc, maxParallel, convState>>

fetchVars == <<fpc, fchan, fopts, fbatches, flast, fret, fctx, fretried>>

driveVars == <<files, dcall, dlog>>

\* What every step of the orchestrator leaves alone.
sideVars == <<poolVars, fetchVars, driveVars, dateVars, threadVars, folderVars, lockVars, docVars, raceVars, ckVars>>

vars == <<orchVars, sideVars>>

DocIDs == Convs \X Dates

NoFile == [state |-> "absent", idx |-> NewExportIndex]

TornFile == [state |-> "partial", idx |-> NewExportIndex]

NoResults == [c \in Convs |-> "none"]

Running == {"users", "next", "fetch", "write", "update", "save"}

\* ------------------------------------------------------------ Slack server
\* conversations.history: the messages of c strictly between oldest and
\* latest (inclusive is never set by the client).
History(c, o, l) ==
    {t \in slack[c] : (o = NoTS \/ t > o) /\ (l = NoTS \/ t < l)}

\* One page of conversations.history, newest first; the cursor is the last
\* timestamp already served.
GetConversationHistory(c, o, l, cu) ==
    LET remaining == {t \in History(c, o, l) : cu = NoTS \/ t < cu}
        page      == Prefix(SortDesc(remaining), PageLimit)
        more      == Cardinality(remaining) > PageLimit
    IN  [Messages   |-> page,
         HasMore    |-> more,
         NextCursor |-> IF more THEN page[Len(page)] ELSE NoTS]

\* ------------------------------------------------------------ Google Drive
NoDriveDoc == [exists |-> FALSE, body |-> <<>>]

\* FindOrCreateDocument: the document named title in the folder, created
\* empty when the search finds none.
FindOrCreateDocument(docs, id) ==
    IF docs[id].exists THEN docs ELSE [docs EXCEPT ![id] = [exists |-> TRUE, body |-> <<>>]]

\* BatchAppendMessages: one batch update appending the blocks at the end.
BatchAppendMessages(docs, id, blocks) ==
    IF blocks = <<>> THEN docs ELSE [docs EXCEPT ![id].body = @ \o blocks]

\* DocWriter.WriteMessages: sort oldest first, then one batched append.
WriteMessages(docs, id, msgs) ==
    IF msgs = <<>> THEN docs ELSE BatchAppendMessages(docs, id, SortSeqAsc(msgs))

\* ------------------------------------------------------- folder structure
\* The root folder found or created by name ("Slack Exports").
RootFolder == <<"root">>

\* The folder named ConversationFolderName(type, name) under the root.
ConversationFolderID(c) == <<"root", c>>

\* FindOrCreateFolder: the folder of that name and parent, created when the
\* search finds none.
FindOrCreateFolder(folders, id) == folders \cup {id}

\* EnsureRootFolder: reuse the indexed root folder, else find-or-create it.
EnsureRootFolder(idx) ==
    IF idx.RootFolderID # NoID THEN idx ELSE [idx EXCEPT !.RootFolderID = RootFolder]

\* EnsureConversationFolder: reuse the indexed folder, else ensure the root,
\* find-or-create the folder and record the conversation in the index.
EnsureConversationFolder(idx, c) ==
    IF idx.Conversations[c].FolderID # NoID THEN idx
    ELSE [EnsureRootFolder(idx) EXCEPT !.Conversations[c].FolderID = ConversationFolderID(c)]

\* The Drive folders after EnsureConversationFolder(idx, c).
FoldersEnsured(folders, idx, c) ==
    IF idx.Conversations[c].FolderID # NoID THEN folders
    ELSE FindOrCreateFolder(
             IF idx.RootFolderID # NoID THEN folders ELSE FindOrCreateFolder(folders, RootFolder),
             ConversationFolderID(c))

\* EnsureDailyDoc: reuse the indexed DocExport, else find-or-create the
\* document and index a fresh DocExport for it.
EnsureDailyDoc(idx, c, d) ==
    IF idx.Conversations[c].DailyDocs[d].DocID # NoID THEN idx
    ELSE [idx EXCEPT !.Conversations[c].DailyDocs[d] =
              [DocID |-> <<c, d>>, LastMessageTS |-> NoTS, MessageCount |-> 0]]

\* ------------------------------------------------------------ orchestrator
\* GroupMessagesByDate(...)[date]: the messages of one day, in fetch order.
GroupMessagesByDate(msgs, d) == SelectSeq(msgs, LAMBDA t : DateFromTS(t) = d)

\* SortedDates: the dates that have messages, ascending.
SortedDates(msgs) == SortAsc({DateFromTS(t) : t \in Range(msgs)})

\* ExportConversation, bounds: sync mode resumes from the conversation's
\* LastMessageTS, otherwise the configured date range applies.
OldestBound(conv) == IF syncMode THEN conv.LastMessageTS ELSE dateFrom

LatestBound == IF syncMode THEN NoTS ELSE dateTo

\* ExportConversation, doc stats after a day's write.
UpdateDocStats(doc, msgs) ==
    [doc EXCEPT !.MessageCount  = @ + Len(msgs),
                !.LastMessageTS = IF Len(msgs) > 0 THEN msgs[Len(msgs)] ELSE @]

\* Mutant of UpdateConvState: takes the last fetched message instead of the first.
UpdateConvState_LastFetched(conv, msgs) ==
    IF Len(msgs) > 0
    THEN [conv EXCEPT !.LastMessageTS = msgs[Len(msgs)], !.MessageCount = @ + Len(msgs)]
    ELSE conv

\* ExportConversation, conversation state after the day loop.
UpdateConvState(conv, msgs) ==
    IF Len(msgs) > 0
    THEN [conv EXCEPT !.LastMessageTS = msgs[1], !.MessageCount = @ + Len(msgs)]
    ELSE conv

\* Mutant of ValidFlags: the --sync check is missing.
ValidFlags_NoSyncCheck(sync, resume, from, to) ==
    ~(resume /\ (from # NoDate \/ to # NoDate))

\* runExport: flag validation before the exporter is created.
ValidFlags(sync, resume, from, to) ==
    /\ ~(sync /\ (from # NoDate \/ to # NoDate))
    /\ ~(resume /\ (from # NoDate \/ to # NoDate))

\* LoadExportIndex: a missing file gives a new index, a file that does not
\* parse is an error.
LoadOK(file) == file.state # "partial"

LoadExportIndex(file) == IF file.state = "ok" THEN file.idx ELSE NewExportIndex

\* The conversation lists a run may be given (arguments or export=true).
ConvLists == {<<"c1", "c2">>, <<"c1">>}

FlagDates == {NoDate, Max(Dates)}

\* ---------------------------------------------------------- state machine
\* A nil error.  An error value is [type, Code, ResourceType, RetryAfter].
NoErr == [type |-> "nil", Code |-> "", ResourceType |-> "", RetryAfter |-> 0]

\* No parallel export, no stand-alone fetch and no Drive call is under way.
PoolIdle ==
    poolPc = "idle" /\ maxParallel = 0 /\ convState = <<>>

FetcherIdle ==
    /\ fpc = "idle" /\ fchan = "none" /\ fopts = [Oldest |-> NoTS, Cursor |-> NoTS]
    /\ fbatches = <<>> /\ flast = "none" /\ fret = NoErr
    /\ fctx = FALSE /\ fretried = FALSE

DriveIdle ==
    files = {} /\ dcall = <<>> /\ dlog = <<>>

NoLookup == [conv |-> "none", ts |-> <<>>, url |-> <<>>]

DateIdle ==
    zone = 0 /\ dateIndex = <<>> /\ dateDocs = <<>> /\ dlook = NoLookup

\* A ts of the thread conversation that no message carries.
Absent == [k |-> "absent", p |-> 0]

ThreadIdle ==
    /\ tslack = [t \in 1 .. MaxThreadTS |-> Absent]
    /\ tpc = "idle" /\ tall = <<>> /\ tparents = <<>>
    /\ tindex = <<>> /\ tdocs = <<>> /\ truns = 0 /\ tdisk = <<>>

FolderIdle ==
    fcfg = <<>> /\ ffiles = {} /\ findex = <<>> /\ fwriters = {}

LockIdle ==
    mu = <<>> /\ lpc = <<>> /\ lidx = <<>> /\ lfile = <<>> /\ laccess = {}

DocIdle ==
    gdoc = <<>> /\ gbatch = <<>>

RaceIdle ==
    rargs = <<>> /\ rfiles = {} /\ rcall = <<>>

CkIdle ==
    ckmu = "" /\ ckpc = "" /\ ckdata = <<>> /\ ckfile = <<>> /\ ckcalls = 0

SideIdle ==
    PoolIdle /\ FetcherIdle /\ DriveIdle /\ DateIdle /\ ThreadIdle /\ FolderIdle /\ LockIdle /\ DocIdle /\ RaceIdle /\ CkIdle

\* Nothing exported yet: empty Slack conversations, empty Drive, no index file.
Init ==
    /\ slack = [c \in Convs |-> {}]
    /\ driveFolders = {}
    /\ driveDocs = [id \in DocIDs |-> NoDriveDoc]
    /\ disk = NoFile
    /\ pc = "idle"
    /\ index = NewExportIndex
    /\ syncMode = FALSE /\ dateFrom = NoTS /\ dateTo = NoTS /\ exportResume = FALSE
    /\ queue = <<>> /\ cur = "none"
    /\ cursor = NoTS /\ oldest = NoTS /\ latest = NoTS
    /\ allMessages = <<>> /\ dates = <<>>
    /\ results = NoResults
    /\ runs = 0
    /\ preSave = NoFile
    /\ written = {}
    /\ toExport = <<>> /\ cancelled = FALSE /\ exit = "none"
    /\ SideIdle

\* The orchestrator before any run: what Init says of its variables.
OrchIdle ==
    /\ slack = [c \in Convs |-> {}]
    /\ driveFolders = {}
    /\ driveDocs = [id \in DocIDs |-> NoDriveDoc]
    /\ disk = NoFile
    /\ pc = "idle"
    /\ index = NewExportIndex
    /\ syncMode = FALSE /\ dateFrom = NoTS /\ dateTo = NoTS /\ exportResume = FALSE
    /\ queue = <<>> /\ cur = "none"
    /\ cursor = NoTS /\ oldest = NoTS /\ latest = NoTS
    /\ allMessages = <<>> /\ dates = <<>>
    /\ results = NoResults
    /\ runs = 0
    /\ preSave = NoFile
    /\ written = {}
    /\ toExport = <<>> /\ cancelled = FALSE /\ exit = "none"

\* The process is gone: everything it held in memory is lost.
ProcessGone ==
    /\ pc' = "idle"
    /\ index' = NewExportIndex
    /\ syncMode' = FALSE /\ dateFrom' = NoTS /\ dateTo' = NoTS /\ exportResume' = FALSE
    /\ queue' = <<>> /\ cur' = "none"
    /\ cursor' = NoTS /\ oldest' = NoTS /\ latest' = NoTS
    /\ allMessages' = <<>> /\ dates' = <<>>
    /\ results' = NoResults
    /\ preSave' = NoFile
    /\ written' = {}
    /\ toExport' = <<>>
    /\ cancelled' = FALSE

\* The newest timestamp posted anywhere in the workspace (the wall clock).
Posted == IF \A c \in Convs : slack[c] = {} THEN 0 ELSE Max(UNION {slack[c] : c \in Convs})

\* A user posts a message to conversation c; ts is the time of posting.
\* The export sees new messages only through its history requests.
NewMessage(c) ==
    /\ pc \in {"idle", "fetch"}
    /\ Posted < MaxTS
    /\ slack' = [slack EXCEPT ![c] = @ \cup {Posted + 1}]
    /\ UNCHANGED <<driveFolders, driveDocs, disk, pc, index, syncMode, dateFrom, dateTo,
                   exportResume, queue, cur, cursor, oldest, latest, allMessages, dates,
                   results, runs, preSave, written>>
    /\ UNCHANGED <<toExport, cancelled, exit>>
    /\ UNCHANGED sideVars

\* runExport up to the call of ExportAll: flag validation, NewExporter,
\* Initialize (LoadExportIndex).
RunExport(sync, resume, from, to, convs) ==
    /\ pc = "idle"
    /\ runs < MaxRuns
    /\ ValidFlags(sync, resume, from, to)
    /\ LoadOK(disk)
    /\ runs' = runs + 1
    /\ index' = LoadExportIndex(disk)
    /\ syncMode' = sync
    /\ exportResume' = resume
    /\ dateFrom' = parseDateFlag(from)
    /\ dateTo' = endOfDay(parseDateFlag(to))
    /\ queue' = convs
    /\ toExport' = convs
    /\ exit' = "none"
    /\ pc' = "users"
    /\ UNCHANGED <<slack, driveFolders, driveDocs, disk, cur, cursor, oldest, latest,
                   allMessages, dates, results, preSave, written>>
    /\ UNCHANGED <<cancelled>>
    /\ UNCHANGED sideVars

\* runExport when Initialize fails on an index file that does not parse.
RunExportLoadError ==
    /\ pc = "idle"
    /\ runs < MaxRuns
    /\ ~LoadOK(disk)
    /\ runs' = runs + 1
    /\ exit' = "init_failed"
    /\ UNCHANGED <<slack, driveFolders, driveDocs, disk, pc, index, syncMode, dateFrom,
                   dateTo, exportResume, queue, cur, cursor, oldest, latest, allMessages,
                   dates, results, preSave, written>>
    /\ UNCHANGED <<toExport, cancelled>>
    /\ UNCHANGED sideVars

\* ExportAll: LoadUsersForConversations succeeds.
LoadUsers ==
    /\ pc = "users"
    /\ ~cancelled
    /\ pc' = "next"
    /\ UNCHANGED <<slack, driveFolders, driveDocs, disk, index, syncMode, dateFrom, dateTo,
                   exportResume, queue, cur, cursor, oldest, latest, allMessages, dates,
                   results, runs, preSave, written>>
    /\ UNCHANGED <<toExport, cancelled, exit>>
    /\ UNCHANGED sideVars

\* ExportAll: LoadUsersForConversations fails; ExportAll returns the error
\* and runExport ends with "export failed".
LoadUsersError ==
    /\ pc = "users"
    /\ ProcessGone
    /\ exit' = "export_failed"
    /\ UNCHANGED <<slack, driveFolders, driveDocs, disk, runs>>
    /\ UNCHANGED sideVars

\* ExportAll loop head and ExportConversation up to the first history
\* request: ensure the folder, choose the fetch range.
StartConversation ==
    /\ pc = "next"
    /\ queue # <<>>
    /\ cancelled => index.Conversations[Head(queue)].FolderID # NoID
    /\ LET c == Head(queue)
           idx == EnsureConversationFolder(index, c)
       IN  /\ cur' = c
           /\ index' = idx
           /\ driveFolders' = FoldersEnsured(driveFolders, index, c)
           /\ oldest' = OldestBound(idx.Conversations[c])
           /\ latest' = LatestBound
    /\ cursor' = NoTS
    /\ allMessages' = <<>>
    /\ dates' = <<>>
    /\ written' = {}
    /\ pc' = "fetch"
    /\ UNCHANGED <<slack, driveDocs, disk, syncMode, dateFrom, dateTo, exportResume,
                   queue, results, runs, preSave>>
    /\ UNCHANGED <<toExport, cancelled, exit>>
    /\ UNCHANGED sideVars

\* Mutant of Return: the loop of ExportAll stops at the first failure.
Return_StopOnError(res) ==
    /\ results' = [results EXCEPT ![cur] = res]
    /\ queue' = IF res = "error" THEN <<>> ELSE Tail(queue)
    /\ pc' = "next"

\* ExportConversation returns to ExportAll, which records the result and
\* goes on with the next conversation.
Return(res) ==
    /\ results' = [results EXCEPT ![cur] = res]
    /\ queue' = Tail(queue)
    /\ pc' = "next"

\* EnsureConversationFolder fails (Drive error): the conversation fails.
FolderError ==
    /\ pc = "next"
    /\ queue # <<>>
    /\ cur' = Head(queue)
    /\ results' = [results EXCEPT ![Head(queue)] = "error"]
    /\ queue' = Tail(queue)
    /\ allMessages' = <<>>
    /\ written' = {}
    /\ UNCHANGED <<slack, driveFolders, driveDocs, disk, pc, index, syncMode, dateFrom,
                   dateTo, exportResume, cursor, oldest, latest, dates, runs, preSave>>
    /\ UNCHANGED <<toExport, cancelled, exit>>
    /\ UNCHANGED sideVars

\* GetAllMessages: one iteration of the pagination loop; after the last
\* page ExportConversation groups the messages by date.
FetchPage ==
    /\ pc = "fetch"
    /\ ~cancelled
    /\ LET resp == GetConversationHistory(cur, oldest, latest, cursor)
           all  == allMessages \o resp.Messages
       IN  /\ allMessages' = all
           /\ IF resp.HasMore /\ resp.NextCursor # NoTS
              THEN /\ cursor' = resp.NextCursor
                   /\ UNCHANGED <<pc, dates, results, queue>>
              ELSE /\ cursor' = NoTS
                   /\ IF all = <<>>
                      THEN Return("ok") /\ dates' = <<>>
                      ELSE /\ dates' = SortedDates(all)
                           /\ pc' = "write"
                           /\ UNCHANGED <<results, queue>>
    /\ UNCHANGED <<slack, driveFolders, driveDocs, disk, index, syncMode, dateFrom, dateTo,
                   exportResume, cur, oldest, latest, runs, preSave, written>>
    /\ UNCHANGED <<toExport, cancelled, exit>>
    /\ UNCHANGED sideVars

\* GetAllMessages fails (auth, network, API error): the conversation fails.
FetchError ==
    /\ pc = "fetch"
    /\ Return("error")
    /\ UNCHANGED <<slack, driveFolders, driveDocs, disk, index, syncMode, dateFrom, dateTo,
                   exportResume, cur, cursor, oldest, latest, allMessages, dates, runs,
                   preSave, written>>
    /\ UNCHANGED <<toExport, cancelled, exit>>
    /\ UNCHANGED sideVars

\* One iteration of the day loop: EnsureDailyDoc, WriteMessages, doc stats.
WriteDay ==
    /\ pc = "write"
    /\ ~cancelled
    /\ LET d    == Head(dates)
           msgs == GroupMessagesByDate(allMessages, d)
           idx  == EnsureDailyDoc(index, cur, d)
           id   == idx.Conversations[cur].DailyDocs[d].DocID
       IN  /\ driveDocs' = WriteMessages(FindOrCreateDocument(driveDocs, id), id, msgs)
           /\ index' = [idx EXCEPT !.Conversations[cur].DailyDocs[d] = UpdateDocStats(@, msgs)]
           /\ written' = written \cup {d}
    /\ dates' = Tail(dates)
    /\ pc' = IF Tail(dates) = <<>> THEN "update" ELSE "write"
    /\ UNCHANGED <<slack, driveFolders, disk, syncMode, dateFrom, dateTo, exportResume,
                   queue, cur, cursor, oldest, latest, allMessages, results, runs, preSave>>
    /\ UNCHANGED <<toExport, cancelled, exit>>
    /\ UNCHANGED sideVars

\* EnsureDailyDoc fails: ExportConversation returns the error without saving.
EnsureDocError ==
    /\ pc = "write"
    /\ Return("error")
    /\ UNCHANGED <<slack, driveFolders, driveDocs, disk, index, syncMode, dateFrom, dateTo,
                   exportResume, cur, cursor, oldest, latest, allMessages, dates, runs,
                   preSave, written>>
    /\ UNCHANGED <<toExport, cancelled, exit>>
    /\ UNCHANGED sideVars

\* WriteMessages fails after EnsureDailyDoc: the document is there and
\* indexed, nothing was appended; ExportConversation returns the error.
WriteError ==
    /\ pc = "write"
    /\ cancelled => index.Conversations[cur].DailyDocs[Head(dates)].DocID # NoID
    /\ LET idx == EnsureDailyDoc(index, cur, Head(dates))
       IN  /\ index' = idx
           /\ driveDocs' = FindOrCreateDocument(driveDocs,
                                idx.Conversations[cur].DailyDocs[Head(dates)].DocID)
    /\ Return("error")
    /\ UNCHANGED <<slack, driveFolders, disk, syncMode, dateFrom, dateTo, exportResume,
                   cur, cursor, oldest, latest, allMessages, dates, runs, preSave, written>>
    /\ UNCHANGED <<toExport, cancelled, exit>>
    /\ UNCHANGED sideVars

\* After the day loop: update the conversation state, then Save up to
\* os.WriteFile opening the index file (O_TRUNC empties it).
FinishConversation ==
    /\ pc = "update"
    /\ index' = [index EXCEPT !.Conversations[cur] = UpdateConvState(@, allMessages)]
    /\ preSave' = disk
    /\ disk' = TornFile
    /\ pc' = "save"
    /\ UNCHANGED <<slack, driveFolders, driveDocs, syncMode, dateFrom, dateTo, exportResume,
                   queue, cur, cursor, oldest, latest, allMessages, dates, results, runs,
                   written>>
    /\ UNCHANGED <<toExport, cancelled, exit>>
    /\ UNCHANGED sideVars

\* After the day loop, Save failing before the file is opened (MkdirAll,
\* open): a warning only, the export result is a success.
FinishConversationSaveError ==
    /\ pc = "update"
    /\ index' = [index EXCEPT !.Conversations[cur] = UpdateConvState(@, allMessages)]
    /\ Return("ok")
    /\ UNCHANGED <<slack, driveFolders, driveDocs, disk, syncMode, dateFrom, dateTo,
                   exportResume, cur, cursor, oldest, latest, allMessages, dates, runs,
                   preSave, written>>
    /\ UNCHANGED <<toExport, cancelled, exit>>
    /\ UNCHANGED sideVars

\* os.WriteFile writes the serialised index and Save returns.
SaveWrite ==
    /\ pc = "save"
    /\ disk' = [state |-> "ok", idx |-> index]
    /\ preSave' = NoFile
    /\ Return("ok")
    /\ UNCHANGED <<slack, driveFolders, driveDocs, index, syncMode, dateFrom, dateTo,
                   exportResume, cur, cursor, oldest, latest, allMessages, dates, runs,
                   written>>
    /\ UNCHANGED <<toExport, cancelled, exit>>
    /\ UNCHANGED sideVars

\* os.WriteFile fails part-way (disk full, I/O error): a warning only.
SaveWriteError ==
    /\ pc = "save"
    /\ preSave' = NoFile
    /\ Return("ok")
    /\ UNCHANGED <<slack, driveFolders, driveDocs, disk, index, syncMode, dateFrom, dateTo,
                   exportResume, cur, cursor, oldest, latest, allMessages, dates, runs,
                   written>>
    /\ UNCHANGED <<toExport, cancelled, exit>>
    /\ UNCHANGED sideVars

\* runExport, summary loop: the number of results that carry an error.
errorCount(res) == Cardinality({c \in Convs : res[c] = "error"})

\* Mutant of EndRun: ExportAll returns an error when a conversation failed.
EndRun_ErrorOnFailure ==
    /\ pc = "next"
    /\ queue = <<>>
    /\ ProcessGone
    /\ exit' = IF errorCount(results) > 0 THEN "export_failed" ELSE "ok"
    /\ UNCHANGED <<slack, driveFolders, driveDocs, disk, runs>>
    /\ UNCHANGED sideVars

\* ExportAll has exported the whole list and returns the results with a nil
\* error; runExport prints the summary and returns an error when a
\* conversation failed.
EndRun ==
    /\ pc = "next"
    /\ queue = <<>>
    /\ ProcessGone
    /\ exit' = IF errorCount(results) > 0 THEN "exports_failed" ELSE "ok"
    /\ UNCHANGED <<slack, driveFolders, driveDocs, disk, runs>>
    /\ UNCHANGED sideVars

\* The process is killed (crash, power loss, kill -9) at any point of a run.
Crash ==
    /\ pc \in Running
    /\ ProcessGone
    /\ exit' = "killed"
    /\ UNCHANGED <<slack, driveFolders, driveDocs, disk, runs>>
    /\ UNCHANGED sideVars

Next ==
    \/ \E c \in Convs : NewMessage(c)
    \/ \E sync \in BOOLEAN, resume \in BOOLEAN, from \in FlagDates, to \in FlagDates,
          convs \in ConvLists : RunExport(sync, resume, from, to, convs)
    \/ RunExportLoadError
    \/ LoadUsers
    \/ LoadUsersError
    \/ StartConversation
    \/ FolderError
    \/ FetchPage
    \/ FetchError
    \/ WriteDay
    \/ EnsureDocError
    \/ WriteError
    \/ FinishConversation
    \/ FinishConversationSaveError
    \/ SaveWrite
    \/ SaveWriteError
    \/ EndRun
    \/ Crash

Spec == Init /\ [][Next]_vars

\* The interrupt handler of runExport cancels the run's context: every
\* later call that takes the context fails.
Cancel ==
    /\ pc \in Running
    /\ ~cancelled
    /\ cancelled' = TRUE
    /\ UNCHANGED <<slack, driveFolders, driveDocs, disk, pc, index, syncMode, dateFrom,
                   dateTo, exportResume, queue, cur, cursor, oldest, latest, allMessages,
                   dates, results, runs, preSave, written, toExport, exit>>
    /\ UNCHANGED sideVars

\* Export runs that may be interrupted (SIGINT, SIGTERM).
NextCancel == Next \/ Cancel

SpecCancel == Init /\ [][NextCancel]_vars

TypeOK ==
    /\ pc \in {"idle"} \cup Running
    /\ \A c \in Convs : slack[c] \subseteq TSs
    /\ disk.state \in {"absent", "ok", "partial"}
    /\ runs \in 0 .. MaxRuns

\* An index file that records conversation c1 as completely exported (an
\* export of c1 made while it had no message yet): the input of a run
\* that resumes.
CompleteConv == [NoConv EXCEPT !.FolderID = ConversationFolderID("c1"), !.Status = "complete"]

InitResume ==
    /\ slack = [c \in Convs |-> {}]
    /\ driveFolders = {RootFolder, ConversationFolderID("c1")}
    /\ driveDocs = [id \in DocIDs |-> NoDriveDoc]
    /\ disk = [state |-> "ok", idx |-> [RootFolderID |-> RootFolder, Conversations |-> [NewExportIndex.Conversations EXCEPT !["c1"] = CompleteConv]]]
    /\ pc = "idle"
    /\ index = NewExportIndex
    /\ syncMode = FALSE /\ dateFrom = NoTS /\ dateTo = NoTS /\ exportResume = FALSE
    /\ queue = <<>> /\ cur = "none"
    /\ cursor = NoTS /\ oldest = NoTS /\ latest = NoTS
    /\ allMessages = <<>> /\ dates = <<>>
    /\ results = NoResults
    /\ runs = 0
    /\ preSave = NoFile
    /\ written = {}
    /\ toExport = <<>> /\ cancelled = FALSE /\ exit = "none"
    /\ SideIdle

SpecResume == InitResume /\ [][Next]_vars

\* ------------------------------------------------- Slack client (fetcher)
AuthCodes == {"invalid_auth", "token_revoked", "account_inactive", "not_authed"}

NotFoundCodes == {"channel_not_found", "user_not_found", "thread_not_found",
                  "message_not_found"}

\* The error codes a Slack response (ok = false) may carry: the codes the
\* client names, and one it does not know.
ErrorCodes == {"ratelimited"} \cup AuthCodes \cup NotFoundCodes
              \cup {"missing_scope", "access_denied", "not_in_channel", "some_weird_error"}

MkErr(t, code, res, after) ==
    [type |-> t, Code |-> code, ResourceType |-> res, RetryAfter |-> after]

\* Mutant of classifyError: the authentication codes are treated as rate
\* limiting (and so retried).
classifyError_AuthRetried(code, retryAfter) ==
    CASE code = "ratelimited" \/ code \in AuthCodes -> MkErr("RateLimitError", "", "", retryAfter)
      [] code = "channel_not_found" -> MkErr("NotFoundError", "", "channel", 0)
      [] code = "user_not_found"    -> MkErr("NotFoundError", "", "user", 0)
      [] code = "thread_not_found"  -> MkErr("NotFoundError", "", "thread", 0)
      [] code = "message_not_found" -> MkErr("NotFoundError", "", "message", 0)
      [] OTHER -> MkErr("APIError", code, "", 0)

\* Mutant of classifyError: the case of thread_not_found is missing.
classifyError_NoThreadCase(code, retryAfter) ==
    CASE code = "ratelimited" -> MkErr("RateLimitError", "", "", retryAfter)
      [] code \in AuthCodes -> MkErr("AuthError", code, "", 0)
      [] code = "channel_not_found" -> MkErr("NotFoundError", "", "channel", 0)
      [] code = "user_not_found"    -> MkErr("NotFoundError", "", "user", 0)
      [] code = "message_not_found" -> MkErr("NotFoundError", "", "message", 0)
      [] OTHER -> MkErr("APIError", code, "", 0)

\* classifyError: a Slack error code as a typed error.
classifyError(code, retryAfter) ==
    CASE code = "ratelimited" -> MkErr("RateLimitError", "", "", retryAfter)
      [] code \in AuthCodes -> MkErr("AuthError", code, "", 0)
      [] code = "channel_not_found" -> MkErr("NotFoundError", "", "channel", 0)
      [] code = "user_not_found"    -> MkErr("NotFoundError", "", "user", 0)
      [] code = "thread_not_found"  -> MkErr("NotFoundError", "", "thread", 0)
      [] code = "message_not_found" -> MkErr("NotFoundError", "", "message", 0)
      [] OTHER -> MkErr("APIError", code, "", 0)

IsRateLimitError(err) == err.type = "RateLimitError"

IsAuthError(err) ==
    err.type = "AuthError" \/ (err.type = "APIError" /\ err.Code \in AuthCodes)

IsNotFoundError(err) ==
    err.type = "NotFoundError" \/ (err.type = "APIError" /\ err.Code \in NotFoundCodes)

\* The Retry-After headers a 429 answer may carry: none, or seconds.
RetryAfterHeaders == {<<>>, <<2>>, <<61>>}

\* Client.request on HTTP 429: RateLimitError with the header's seconds,
\* one second when there is no header.
RateLimited(header) ==
    MkErr("RateLimitError", "", "", IF header = <<>> THEN 1 ELSE header[1])

\* A call that failed below the API (transport, cancelled context).
RequestFailed == MkErr("error", "request failed", "", 0)

\* ctx.Err() of a cancelled context.
Canceled == MkErr("error", "context canceled", "", 0)

\* Mutant of RetryOptions: the options are built anew for the retry.
RetryOptions_Reset(opts) == [opts EXCEPT !.Cursor = NoTS]

\* GetAllMessages, "continue" after the backoff: the retry uses opts as
\* they are.
RetryOptions(opts) == opts

\* What GetAllMessages delivers when no request is rate limited: the pages
\* from cursor cu on, concatenated.
RECURSIVE FetchAll(_, _, _)
FetchAll(c, o, cu) ==
    LET resp == GetConversationHistory(c, o, NoTS, cu)
    IN  resp.Messages \o
        (IF resp.HasMore /\ resp.NextCursor # NoTS THEN FetchAll(c, o, resp.NextCursor)
         ELSE <<>>)

RECURSIVE Flatten(_)
Flatten(ss) == IF ss = <<>> THEN <<>> ELSE Head(ss) \o Flatten(Tail(ss))

\* What a step of the fetcher leaves alone.
notFetcher == <<orchVars, poolVars, driveVars, dateVars, threadVars, folderVars, lockVars, docVars, raceVars, ckVars>>

\* A conversation history on the server, nothing else under way.
FetcherInit ==
    /\ slack \in [Convs -> SUBSET TSs]
    /\ driveFolders = {}
    /\ driveDocs = [id \in DocIDs |-> NoDriveDoc]
    /\ disk = NoFile
    /\ pc = "idle"
    /\ index = NewExportIndex
    /\ syncMode = FALSE /\ dateFrom = NoTS /\ dateTo = NoTS /\ exportResume = FALSE
    /\ queue = <<>> /\ cur = "none"
    /\ cursor = NoTS /\ oldest = NoTS /\ latest = NoTS
    /\ allMessages = <<>> /\ dates = <<>>
    /\ results = NoResults
    /\ runs = 0
    /\ preSave = NoFile
    /\ written = {}
    /\ toExport = <<>> /\ cancelled = FALSE /\ exit = "none"
    /\ SideIdle

\* GetAllMessages(ctx, channelID, oldest, callback) is called.
GetAllMessages(c, o) ==
    /\ fpc = "idle"
    /\ fpc' = "request"
    /\ fchan' = c
    /\ fopts' = [Oldest |-> o, Cursor |-> NoTS]
    /\ UNCHANGED <<fbatches, flast, fret, fctx, fretried>>
    /\ UNCHANGED notFetcher

\* Mutant of FetchAnswerPage: the callback is called for an empty page too.
FetchAnswerPage_AlwaysCallback ==
    /\ fpc = "request"
    /\ ~fctx
    /\ LET resp == GetConversationHistory(fchan, fopts.Oldest, NoTS, fopts.Cursor)
       IN  /\ fbatches' = Append(fbatches, resp.Messages)
           /\ IF ~resp.HasMore \/ resp.NextCursor = NoTS
              THEN fpc' = "returned" /\ UNCHANGED fopts
              ELSE fpc' = "request" /\ fopts' = [fopts EXCEPT !.Cursor = resp.NextCursor]
    /\ flast' = "page"
    /\ UNCHANGED <<fchan, fret, fctx, fretried>>
    /\ UNCHANGED notFetcher

\* A request answered with a page: the callback gets a non-empty page, the
\* loop ends on the last page, else the cursor moves on.
FetchAnswerPage ==
    /\ fpc = "request"
    /\ ~fctx
    /\ LET resp == GetConversationHistory(fchan, fopts.Oldest, NoTS, fopts.Cursor)
       IN  /\ fbatches' = IF Len(resp.Messages) > 0 THEN Append(fbatches, resp.Messages)
                           ELSE fbatches
           /\ IF ~resp.HasMore \/ resp.NextCursor = NoTS
              THEN fpc' = "returned" /\ UNCHANGED fopts
              ELSE fpc' = "request" /\ fopts' = [fopts EXCEPT !.Cursor = resp.NextCursor]
    /\ flast' = "page"
    /\ UNCHANGED <<fchan, fret, fctx, fretried>>
    /\ UNCHANGED notFetcher

\* The loop's handling of an error of GetConversationHistory: a
\* RateLimitError is waited out, any other error is returned.
HandleError(err) ==
    IF IsRateLimitError(err)
    THEN fpc' = "wait" /\ fret' = err /\ fretried' = TRUE
    ELSE fpc' = "returned" /\ fret' = err /\ UNCHANGED fretried

\* A request answered with HTTP 429.
FetchAnswerRateLimited(header) ==
    /\ fpc = "request"
    /\ ~fctx
    /\ HandleError(RateLimited(header))
    /\ flast' = "429"
    /\ UNCHANGED <<fchan, fopts, fbatches, fctx>>
    /\ UNCHANGED notFetcher

\* A request answered with ok = false and an error code.
FetchAnswerError(code) ==
    /\ fpc = "request"
    /\ ~fctx
    /\ HandleError(classifyError(code, 0))
    /\ flast' = code
    /\ UNCHANGED <<fchan, fopts, fbatches, fctx>>
    /\ UNCHANGED notFetcher

\* A request that fails below the API; with a cancelled context every
\* request does.
FetchRequestFailed ==
    /\ fpc = "request"
    /\ HandleError(RequestFailed)
    /\ flast' = "failed"
    /\ UNCHANGED <<fchan, fopts, fbatches, fctx>>
    /\ UNCHANGED notFetcher

\* The backoff is over: time.After fired while the context was not done
\* (the select, blocked on both channels, takes the one that is ready
\* first), and the loop continues.
FetchWaitOver ==
    /\ fpc = "wait"
    /\ ~fctx
    /\ fpc' = "request"
    /\ fopts' = RetryOptions(fopts)
    /\ fret' = NoErr
    /\ UNCHANGED <<fchan, fbatches, flast, fctx, fretried>>
    /\ UNCHANGED notFetcher

\* Mutant of FetchWaitCancelled: the loop continues when the context is done.
FetchWaitCancelled_Continue ==
    /\ fpc = "wait"
    /\ fctx
    /\ fpc' = "request"
    /\ fret' = NoErr
    /\ UNCHANGED <<fchan, fopts, fbatches, flast, fctx, fretried>>
    /\ UNCHANGED notFetcher

\* The context is done during the backoff: GetAllMessages returns ctx.Err().
FetchWaitCancelled ==
    /\ fpc = "wait"
    /\ fctx
    /\ fpc' = "returned"
    /\ fret' = Canceled
    /\ UNCHANGED <<fchan, fopts, fbatches, flast, fctx, fretried>>
    /\ UNCHANGED notFetcher

\* The caller cancels the context of the fetch.
FetchCancel ==
    /\ fpc \in {"request", "wait"}
    /\ ~fctx
    /\ fctx' = TRUE
    /\ UNCHANGED <<fpc, fchan, fopts, fbatches, flast, fret, fretried>>
    /\ UNCHANGED notFetcher

FetcherNext ==
    \/ \E c \in Convs, o \in {NoTS} \cup TSs : GetAllMessages(c, o)
    \/ FetchAnswerPage
    \/ \E h \in RetryAfterHeaders : FetchAnswerRateLimited(h)
    \/ \E code \in ErrorCodes : FetchAnswerError(code)
    \/ FetchRequestFailed
    \/ FetchWaitOver
    \/ FetchWaitCancelled
    \/ FetchCancel

\* The fetch always takes its next step (the process is not stopped).
SpecFetcher == FetcherInit /\ [][FetcherNext]_vars /\ WF_vars(FetcherNext)

\* ------------------------------------------------- parallel export (pool)
\* The cap on concurrent conversation exports.
MaxWorkers == 5

PoolConvs == 1 .. NumPoolConvs

\* Mutant of WorkerLimit: the requested parallelism is taken as it is.
WorkerLimit_NoCap(p) == p

\* The number of workers ExportAllParallel runs for a requested parallelism.
WorkerLimit(p) == IF p > MaxWorkers THEN MaxWorkers ELSE p

\* The conversation exports in progress.
InProgress == {i \in DOMAIN convState : convState[i] = "running"}

notPool == <<orchVars, fetchVars, driveVars, dateVars, threadVars, folderVars, lockVars, docVars, raceVars, ckVars>>

\* ExportAllParallel(ctx, conversations, maxParallel) is called.
ExportAllParallel(p) ==
    /\ poolPc = "idle"
    /\ poolPc' = "running"
    /\ maxParallel' = p
    /\ convState' = [i \in PoolConvs |-> "pending"]
    /\ UNCHANGED notPool

\* A free worker takes the next conversation and starts its export.
WorkerStart(i) ==
    /\ poolPc = "running"
    /\ convState[i] = "pending"
    /\ Cardinality(InProgress) < WorkerLimit(maxParallel)
    /\ convState' = [convState EXCEPT ![i] = "running"]
    /\ UNCHANGED <<poolPc, maxParallel>>
    /\ UNCHANGED notPool

\* A conversation export ends; its result (success or error) is recorded.
WorkerDone(i, res) ==
    /\ poolPc = "running"
    /\ convState[i] = "running"
    /\ convState' = [convState EXCEPT ![i] = res]
    /\ UNCHANGED <<poolPc, maxParallel>>
    /\ UNCHANGED notPool

\* Every conversation has a result: ExportAllParallel returns.
PoolReturn ==
    /\ poolPc = "running"
    /\ \A i \in PoolConvs : convState[i] \in {"ok", "error"}
    /\ poolPc' = "returned"
    /\ UNCHANGED <<maxParallel, convState>>
    /\ UNCHANGED notPool

PoolNext ==
    \/ \E p \in 1 .. MaxRequested : ExportAllParallel(p)
    \/ \E i \in PoolConvs : WorkerStart(i)
    \/ \E i \in PoolConvs, res \in {"ok", "error"} : WorkerDone(i, res)
    \/ PoolReturn

SpecParallel == Init /\ [][PoolNext]_vars

\* ------------------------------------------------ Drive find-or-create
DriveKinds == {"folder", "doc"}

DriveNames == {"a", "b"}

\* parentID of a call: "" (none given) or the id of a folder.
DriveParents == {"", "p"}

\* Mutant of FindFile: the query never matches (the name is compared with
\* its escaped form).
FindFile_NoMatch(fs, kind, name, parentID) == {}

\* FindFolder / FindDocument: the files the query matches; the clause on the
\* parent is there only when parentID is not empty.
FindFile(fs, kind, name, parentID) ==
    {f \in fs : f.name = name /\ f.kind = kind /\ (parentID = "" \/ f.parent = parentID)}

\* CreateFolder / CreateDocument: a new file with a fresh id, in the given
\* parent, in the root of the Drive when none is given.
CreateFile(fs, kind, name, parentID) ==
    [id |-> Cardinality(fs) + 1, kind |-> kind, name |-> name,
     parent |-> IF parentID = "" THEN "root" ELSE parentID]

notDrive == <<orchVars, poolVars, fetchVars, dateVars, threadVars, folderVars, lockVars, docVars, raceVars, ckVars>>

\* FindOrCreate*, the search finds files: the first of the list (PageSize 1,
\* no order asked for) is returned.
DriveFindHit(kind, name, parentID) ==
    /\ dcall = <<>>
    /\ Len(dlog) < MaxCalls
    /\ \E f \in FindFile(files, kind, name, parentID) :
          dlog' = Append(dlog, [kind |-> kind, name |-> name, parent |-> parentID,
                                id |-> f.id, created |-> FALSE])
    /\ UNCHANGED <<files, dcall>>
    /\ UNCHANGED notDrive

\* FindOrCreate*, the search finds nothing: the call goes on to create.
DriveFindMiss(kind, name, parentID) ==
    /\ dcall = <<>>
    /\ Len(dlog) < MaxCalls
    /\ FindFile(files, kind, name, parentID) = {}
    /\ dcall' = <<[kind |-> kind, name |-> name, parent |-> parentID]>>
    /\ UNCHANGED <<files, dlog>>
    /\ UNCHANGED notDrive

\* FindOrCreate*, the create call: the new file is returned.
DriveCreate ==
    /\ dcall # <<>>
    /\ LET c == dcall[1]
           f == CreateFile(files, c.kind, c.name, c.parent)
       IN  /\ files' = files \cup {f}
           /\ dlog' = Append(dlog, [kind |-> c.kind, name |-> c.name, parent |-> c.parent,
                                     id |-> f.id, created |-> TRUE])
    /\ dcall' = <<>>
    /\ UNCHANGED notDrive

\* FindOrCreate*, the create call fails: the call returns the error.
DriveCreateError ==
    /\ dcall # <<>>
    /\ dcall' = <<>>
    /\ UNCHANGED <<files, dlog>>
    /\ UNCHANGED notDrive

DriveNext ==
    \/ \E k \in DriveKinds, n \in DriveNames, p \in DriveParents : DriveFindHit(k, n, p)
    \/ \E k \in DriveKinds, n \in DriveNames, p \in DriveParents : DriveFindMiss(k, n, p)
    \/ DriveCreate
    \/ DriveCreateError

SpecDrive == Init /\ [][DriveNext]_vars

\* ---------------------------------------------- date keys and link lookup
\* Slack timestamps "seconds.microseconds", as their characters.
TS_hi == <<"1", "7", "0", "6", "7", "4", "5", "6", "0", "3", ".", "0", "0", "0", "1", "0", "0">>

TS_here == <<"1", "7", "0", "6", "7", "4", "5", "9", "9", "9", ".", "0", "0", "0", "2", "0", "0">>

TS_nextDay == <<"1", "7", "0", "6", "8", "3", "2", "0", "0", "0", ".", "0", "0", "0", "0", "0", "3">>

SlackTSs == {TS_hi, TS_here, TS_nextDay}

\* The UTC offsets (seconds) of the zones a machine may run in: US Pacific,
\* UTC, Central Europe, India.
ZoneOffsets == {-28800, 0, 3600, 19800}

DateConvs == {"D1", "C1"}

\* A conversation id no export has recorded.
LookupConvs == DateConvs \cup {"C999"}

NoURL == <<>>

\* ts[i] - '0'
DigitValue ==
    ("0" :> 0) @@ ("1" :> 1) @@ ("2" :> 2) @@ ("3" :> 3) @@ ("4" :> 4) @@
    ("5" :> 5) @@ ("6" :> 6) @@ ("7" :> 7) @@ ("8" :> 8) @@ ("9" :> 9)

\* tsToDate, the loop: the decimal number before the dot.
RECURSIVE parseSeconds(_, _, _)
parseSeconds(ts, i, sec) ==
    IF i > Len(ts) \/ ts[i] = "." THEN sec
    ELSE parseSeconds(ts, i + 1, sec * 10 + DigitValue[ts[i]])

\* t.Format("2006-01-02") for the day number n (days since 1970-01-01) of
\* the proleptic Gregorian calendar: <<year, month, day>>.
Format(n) ==
    LET z   == n + 719468
        era == z \div 146097
        doe == z - era * 146097
        yoe == (doe - doe \div 1460 + doe \div 36524 - doe \div 146096) \div 365
        doy == doe - (365 * yoe + yoe \div 4 - yoe \div 100)
        mp  == (5 * doy + 2) \div 153
        d   == doy - (153 * mp + 2) \div 5 + 1
        m   == IF mp < 10 THEN mp + 3 ELSE mp - 9
    IN  <<yoe + era * 400 + (IF m <= 2 THEN 1 ELSE 0), m, d>>

\* Mutant of tsToDate: the time is formatted in UTC whatever the zone.
tsToDate_UTC(ts, off) == Format(parseSeconds(ts, 1, 0) \div 86400)

\* tsToDate: time.Unix(sec, 0) is a time in the machine's local zone (off
\* seconds east of UTC); Format prints its calendar day.
tsToDate(ts, off) == Format((parseSeconds(ts, 1, 0) + off) \div 86400)

FolderURL(c) == <<"folder", c>>

DocURL(c, date) == <<"doc", c, date>>

\* ExportConversation on the messages msgs of conversation c: the folder is
\* ensured and, for every date of GroupMessagesByDate, the daily document
\* titled with the date is ensured and indexed under the date.
IndexAfterExport(idx, c, msgs, off) ==
    LET old   == IF c \in DOMAIN idx THEN idx[c].DailyDocs ELSE <<>>
        dts   == {tsToDate(t, off) : t \in msgs}
        docs  == [d \in (DOMAIN old) \cup dts |-> [DocURL |-> DocURL(c, d)]]
    IN  (c :> [FolderURL |-> FolderURL(c), DailyDocs |-> docs]) @@ idx

\* The documents after that export: each message is written to the document
\* of its date.
DocsAfterExport(docs, c, msgs, off) ==
    LET urls == {DocURL(c, tsToDate(t, off)) : t \in msgs}
    IN  [u \in (DOMAIN docs) \cup urls |->
            (IF u \in DOMAIN docs THEN docs[u] ELSE {})
            \cup {t \in msgs : DocURL(c, tsToDate(t, off)) = u}]

\* Mutant of LookupDocURL: no fall-back to the conversation folder.
LookupDocURL_NoFallback(idx, convID, messageTS, off) ==
    IF convID \notin DOMAIN idx THEN NoURL
    ELSE LET date == tsToDate(messageTS, off)
         IN  IF date \in DOMAIN idx[convID].DailyDocs
             THEN idx[convID].DailyDocs[date].DocURL
             ELSE NoURL

\* ExportIndex.LookupDocURL
LookupDocURL(idx, convID, messageTS, off) ==
    IF convID \notin DOMAIN idx THEN NoURL
    ELSE LET date == tsToDate(messageTS, off)
         IN  IF date \in DOMAIN idx[convID].DailyDocs
             THEN idx[convID].DailyDocs[date].DocURL
             ELSE idx[convID].FolderURL

notDate == <<orchVars, poolVars, fetchVars, driveVars, threadVars, folderVars, lockVars, docVars, raceVars, ckVars>>

\* A machine in some time zone, nothing exported.
DateInit ==
    /\ OrchIdle /\ PoolIdle /\ FetcherIdle /\ DriveIdle /\ ThreadIdle /\ FolderIdle /\ LockIdle /\ DocIdle /\ RaceIdle /\ CkIdle
    /\ zone \in ZoneOffsets
    /\ dateIndex = <<>> /\ dateDocs = <<>> /\ dlook = NoLookup

\* An export of conversation c that fetched the messages msgs.
ExportHistory(c, msgs) ==
    /\ dateIndex' = IndexAfterExport(dateIndex, c, msgs, zone)
    /\ dateDocs' = DocsAfterExport(dateDocs, c, msgs, zone)
    /\ UNCHANGED <<zone, dlook>>
    /\ UNCHANGED notDate

\* The link resolver asks for the document of message ts of conversation c.
DateLookup(c, ts) ==
    /\ dlook' = [conv |-> c, ts |-> ts, url |-> LookupDocURL(dateIndex, c, ts, zone)]
    /\ UNCHANGED <<zone, dateIndex, dateDocs>>
    /\ UNCHANGED notDate

DateNext ==
    \/ \E c \in DateConvs, msgs \in (SUBSET SlackTSs) \ {{}} : ExportHistory(c, msgs)
    \/ \E c \in LookupConvs, ts \in SlackTSs : DateLookup(c, ts)

SpecDate == DateInit /\ [][DateNext]_vars

\* ----------------------------------------------------------------- threads
\* Every thread has its own folder (the thread folder names, date and topic
\* preview, are taken to differ), and the index is saved at the end of a run.
ThreadTSs == 1 .. MaxThreadTS

\* What a ts of the conversation may be: no message, a main message, a
\* reply in the thread of an older main message p, or such a reply that was
\* also sent to the channel (and so is served by conversations.history).
Kinds(t) ==
    {Absent, [k |-> "main", p |-> 0]}
    \cup {[k |-> kind, p |-> q] : kind \in {"reply", "broadcast"}, q \in 1 .. (t - 1)}

ThreadHistories ==
    {h \in [ThreadTSs -> UNION {Kinds(t) : t \in ThreadTSs}] :
        \A t \in ThreadTSs : h[t] \in Kinds(t) /\ (h[t].p # 0 => h[h[t].p].k = "main")}

\* The replies of the thread of p on the server.
RepliesOf(h, p) == {t \in ThreadTSs : h[t].k \in {"reply", "broadcast"} /\ h[t].p = p}

\* The message with timestamp t as the Slack API serves it: a thread parent
\* carries thread_ts = ts and its reply_count, a reply the ts of its parent.
Message(h, t) ==
    IF h[t].k = "main"
    THEN [TS |-> t, ThreadTS |-> IF RepliesOf(h, t) = {} THEN NoTS ELSE t,
          ReplyCount |-> Cardinality(RepliesOf(h, t))]
    ELSE [TS |-> t, ThreadTS |-> h[t].p, ReplyCount |-> 0]

\* GetAllMessages over conversations.history: the channel's messages, newest
\* first.
ChannelMessages(h) ==
    LET ts == SortDesc({t \in ThreadTSs : h[t].k \in {"main", "broadcast"}})
    IN  [i \in 1 .. Len(ts) |-> Message(h, ts[i])]

\* One page of conversations.replies for the thread of p: the parent and its
\* replies, oldest first, after the cursor.
GetConversationReplies(h, p, cu) ==
    LET remaining == {t \in {p} \cup RepliesOf(h, p) : t > cu}
        page      == Prefix(SortAsc(remaining), PageLimit)
        more      == Cardinality(remaining) > PageLimit
    IN  [Messages   |-> [i \in 1 .. Len(page) |-> Message(h, page[i])],
         HasMore    |-> more,
         NextCursor |-> IF more THEN page[Len(page)] ELSE NoTS]

\* Mutant of GetAllReplies: the loop stops after the first page.
GetAllReplies_FirstPage(h, p, cu) == GetConversationReplies(h, p, cu).Messages

\* GetAllReplies: the pages of the thread, up to the last, concatenated by
\* the callback of exportThread.
RECURSIVE GetAllReplies(_, _, _)
GetAllReplies(h, p, cu) ==
    LET resp == GetConversationReplies(h, p, cu)
    IN  resp.Messages \o
        (IF resp.HasMore /\ resp.NextCursor # NoTS THEN GetAllReplies(h, p, resp.NextCursor)
         ELSE <<>>)

\* Mutant of FilterMainMessages: nothing is filtered out.
FilterMainMessages_All(msgs) == msgs

\* FilterMainMessages: the messages with no thread_ts or thread_ts = ts.
FilterMainMessages(msgs) ==
    SelectSeq(msgs, LAMBDA m : m.ThreadTS = NoTS \/ m.TS = m.ThreadTS)

\* GetThreadParents: the messages with reply_count > 0.
GetThreadParents(msgs) == SelectSeq(msgs, LAMBDA m : m.ReplyCount > 0)

\* sort.Slice(sorted, TS ascending) of messages.
RECURSIVE SortMessages(_)
SortMessages(msgs) ==
    IF msgs = <<>> THEN <<>>
    ELSE LET m == Min({msgs[i].TS : i \in 1 .. Len(msgs)})
         IN  SelectSeq(msgs, LAMBDA x : x.TS = m)
             \o SortMessages(SelectSeq(msgs, LAMBDA x : x.TS # m))

ThreadFolderURL(p) == <<"folder", "Threads", p>>

\* ExportIndex.LookupThreadURL
LookupThreadURL(idx, threadTS) ==
    IF threadTS \in DOMAIN idx THEN idx[threadTS].FolderURL ELSE NoURL

\* The thread resolver given to NewDocWriter: the index's lookup.
threadResolver(idx, ts) == LookupThreadURL(idx, ts)

\* DocWriter.messageToBlock: the block of a thread parent gets the
\* "-> View Thread" link when the resolver knows a URL for it.
messageToBlock(idx, msg) ==
    [TS |-> msg.TS,
     Link |-> IF msg.ReplyCount > 0 THEN threadResolver(idx, msg.TS) ELSE NoURL]

\* DocWriter.WriteMessages on the document id: the blocks of the messages,
\* oldest first, appended.
WriteBlocks(docs, idx, id, msgs) ==
    LET sorted == SortMessages(msgs)
        blocks == [i \in 1 .. Len(sorted) |-> messageToBlock(idx, sorted[i])]
    IN  [u \in (DOMAIN docs) \cup {id} |->
            (IF u \in DOMAIN docs THEN docs[u] ELSE <<>>)
            \o (IF u = id THEN blocks ELSE <<>>)]

\* The day loop (of ExportConversation with folder <<"main">>, of
\* exportThread with folder <<"thread", p>>): for every date, ascending,
\* the date's document is ensured and the date's messages are written.
RECURSIVE WriteDays(_, _, _, _, _)
WriteDays(docs, idx, folder, msgs, ds) ==
    IF ds = <<>> THEN docs
    ELSE WriteDays(WriteBlocks(docs, idx, folder \o <<Head(ds)>>,
                               SelectSeq(msgs, LAMBDA m : DateFromTS(m.TS) = Head(ds))),
                   idx, folder, msgs, Tail(ds))

DatesOf(msgs) == SortAsc({DateFromTS(msgs[i].TS) : i \in 1 .. Len(msgs)})

\* EnsureThreadFolder: the indexed thread is reused, else its folder is
\* found or created and the thread is indexed.
EnsureThreadFolder(idx, p) ==
    IF p \in DOMAIN idx /\ idx[p].FolderURL # NoURL THEN idx
    ELSE (p :> [FolderURL |-> ThreadFolderURL(p), ReplyCount |-> 0, LastReplyTS |-> NoTS]) @@ idx

notThread == <<orchVars, poolVars, fetchVars, driveVars, dateVars, folderVars, lockVars, docVars, raceVars, ckVars>>

\* A conversation with threads on the server, nothing exported.
ThreadInit ==
    /\ OrchIdle /\ PoolIdle /\ FetcherIdle /\ DriveIdle /\ DateIdle /\ FolderIdle /\ LockIdle /\ DocIdle /\ RaceIdle /\ CkIdle
    /\ tslack \in ThreadHistories
    /\ tpc = "idle" /\ tall = <<>> /\ tparents = <<>>
    /\ tindex = <<>> /\ tdocs = <<>> /\ truns = 0 /\ tdisk = <<>>

\* A run: the index is loaded from its file; ExportConversation (full
\* export) up to the day loop: the history is fetched; with no message the
\* export returns at once.
ThreadFetch ==
    /\ tpc = "idle"
    /\ truns < MaxThreadRuns
    /\ truns' = truns + 1
    /\ tall' = ChannelMessages(tslack)
    /\ tparents' = <<>>
    /\ tpc' = IF ChannelMessages(tslack) = <<>> THEN "idle" ELSE "main"
    /\ tindex' = tdisk
    /\ UNCHANGED <<tslack, tdocs, tdisk>>
    /\ UNCHANGED notThread

\* Mutant of WriteMain: the folders of the thread parents are ensured
\* before the day loop.
WriteMain_FoldersFirst ==
    /\ tpc = "main"
    /\ LET main    == FilterMainMessages(tall)
           parents == GetThreadParents(tall)
           idx     == [p \in (DOMAIN tindex) \cup {parents[i].TS : i \in 1 .. Len(parents)} |->
                          EnsureThreadFolder(tindex, p)[p]]
       IN  /\ tdocs' = WriteDays(tdocs, idx, <<"main">>, main, DatesOf(main))
           /\ tindex' = idx
    /\ tparents' = GetThreadParents(tall)
    /\ tpc' = "threads"
    /\ UNCHANGED <<tslack, tall, truns, tdisk>>
    /\ UNCHANGED notThread

\* ExportConversation, the day loop over the main messages.
WriteMain ==
    /\ tpc = "main"
    /\ LET main == FilterMainMessages(tall)
       IN  tdocs' = WriteDays(tdocs, tindex, <<"main">>, main, DatesOf(main))
    /\ tparents' = GetThreadParents(tall)
    /\ tpc' = "threads"
    /\ UNCHANGED <<tslack, tall, tindex, truns, tdisk>>
    /\ UNCHANGED notThread

\* exportThread of the next thread parent: folder, all replies, one
\* document per date, then the thread's state.
ExportThread ==
    /\ tpc = "threads"
    /\ tparents # <<>>
    /\ LET p       == Head(tparents).TS
           idx     == EnsureThreadFolder(tindex, p)
           replies == GetAllReplies(tslack, p, NoTS)
       IN  /\ tdocs' = WriteDays(tdocs, idx, <<"thread", p>>, replies, DatesOf(replies))
           /\ tindex' = [idx EXCEPT ![p].ReplyCount = Len(replies),
                                    ![p].LastReplyTS = replies[Len(replies)].TS]
    /\ tparents' = Tail(tparents)
    /\ UNCHANGED <<tslack, tpc, tall, truns, tdisk>>
    /\ UNCHANGED notThread

\* exportThread fails (EnsureThreadFolder, or GetAllReplies after it): a
\* warning, and the loop goes on with the next thread.
ExportThreadError(folderMade) ==
    /\ tpc = "threads"
    /\ tparents # <<>>
    /\ tindex' = IF folderMade THEN EnsureThreadFolder(tindex, Head(tparents).TS) ELSE tindex
    /\ tparents' = Tail(tparents)
    /\ UNCHANGED <<tslack, tpc, tall, tdocs, truns, tdisk>>
    /\ UNCHANGED notThread

\* ExportConversation after the thread loop: state update, Save, return.
ThreadsDone ==
    /\ tpc = "threads"
    /\ tparents = <<>>
    /\ tpc' = "idle"
    /\ tdisk' = tindex
    /\ UNCHANGED <<tslack, tall, tparents, tindex, tdocs, truns>>
    /\ UNCHANGED notThread

\* ExportConversation after the thread loop, Save failing: a warning, and
\* the export returns with the index file as it was.
ThreadsDoneSaveError ==
    /\ tpc = "threads"
    /\ tparents = <<>>
    /\ tpc' = "idle"
    /\ UNCHANGED <<tslack, tall, tparents, tindex, tdocs, truns, tdisk>>
    /\ UNCHANGED notThread

ThreadNext ==
    \/ ThreadFetch
    \/ WriteMain
    \/ ExportThread
    \/ \E folderMade \in BOOLEAN : ExportThreadError(folderMade)
    \/ ThreadsDone
    \/ ThreadsDoneSaveError

SpecThread == ThreadInit /\ [][ThreadNext]_vars

\* ------------------------------------- conversation folders and documents
\* The configured conversations (distinct ids).
FolderConvs == {"C01", "C02"}

ConvTypes == {"dm", "channel"}

\* Names of conversations.json, as their characters.
ConvNames == {<<"a">>, <<"a", "/", "b">>, <<"a", ":", "b">>}

\* No file: the empty id "", and the parentID of a call that names no parent.
NoFileID == 0

\* sanitizeFolderName, the replacer.
Replacer ==
    ("/" :> <<"-">>) @@ ("\\" :> <<"-">>) @@ (":" :> <<"-">>) @@ ("*" :> <<>>) @@
    ("?" :> <<>>) @@ ("\"" :> <<"'">>) @@ ("<" :> <<"(">>) @@ (">" :> <<")">>) @@
    ("|" :> <<"-">>)

RECURSIVE Replace(_)
Replace(name) ==
    IF name = <<>> THEN <<>>
    ELSE (IF Head(name) \in DOMAIN Replacer THEN Replacer[Head(name)] ELSE <<Head(name)>>)
         \o Replace(Tail(name))

\* strings.TrimSpace
RECURSIVE TrimSpace(_)
TrimSpace(name) ==
    IF name = <<>> THEN <<>>
    ELSE IF Head(name) = " " THEN TrimSpace(Tail(name))
    ELSE IF name[Len(name)] = " " THEN TrimSpace(SubSeq(name, 1, Len(name) - 1))
    ELSE name

\* sanitizeFolderName: replace, trim, keep at most 100 characters.
sanitizeFolderName(name) ==
    LET result == TrimSpace(Replace(name))
    IN  IF Len(result) > 100 THEN SubSeq(result, 1, 100) ELSE result

\* ConversationFolderName: "<prefix> - <sanitized name>".
ConversationFolderName(convType, name) ==
    <<CASE convType = "dm" -> "DM"
        [] convType = "mpim" -> "Group"
        [] convType = "channel" -> "Channel"
        [] convType = "private_channel" -> "Private"
        [] OTHER -> "Chat",
      " - ">> \o sanitizeFolderName(name)

RootFolderName == <<"Slack Exports">>

\* FindFolder / FindDocument with ids: the files of that kind and name,
\* in the parent when one is given.
FindFiles(fs, kind, name, parentID) ==
    {f \in fs : f.name = name /\ f.kind = kind /\ (parentID = NoFileID \/ f.parent = parentID)}

NewFile(fs, kind, name, parentID) ==
    [id |-> Cardinality(fs) + 1, kind |-> kind, name |-> name, parent |-> parentID]

\* The title of the daily document of date d (its YYYY-MM-DD string).
DocTitle(d) == <<"date", ToString(d)>>

NoConvEntry == [FolderID |-> NoFileID, DailyDocs |-> [d \in Dates |-> NoFileID]]

notFolder == <<orchVars, poolVars, fetchVars, driveVars, dateVars, threadVars, lockVars, docVars, raceVars, ckVars>>

\* Two conversations configured with a type and a name each; nothing exported.
FolderInit ==
    /\ OrchIdle /\ PoolIdle /\ FetcherIdle /\ DriveIdle /\ DateIdle /\ ThreadIdle /\ LockIdle /\ DocIdle /\ RaceIdle /\ CkIdle
    /\ fcfg \in [FolderConvs -> [Type : ConvTypes, Name : ConvNames]]
    /\ ffiles = {}
    /\ findex = [RootFolderID |-> NoFileID, Conversations |-> [c \in FolderConvs |-> NoConvEntry]]
    /\ fwriters = {}

\* EnsureRootFolder of the export of c when the index has no root folder:
\* FindOrCreateFolder(rootFolderName, "").
FolderEnsureRoot(c) ==
    /\ findex.RootFolderID = NoFileID
    /\ findex.Conversations[c].FolderID = NoFileID
    /\ LET found == FindFiles(ffiles, "folder", RootFolderName, NoFileID)
           new   == NewFile(ffiles, "folder", RootFolderName, NoFileID)
       IN  \E f \in (IF found # {} THEN found ELSE {new}) :
              /\ ffiles' = ffiles \cup {f}
              /\ findex' = [findex EXCEPT !.RootFolderID = f.id]
    /\ UNCHANGED <<fcfg, fwriters>>
    /\ UNCHANGED notFolder

\* EnsureConversationFolder of the export of c, the root folder known:
\* FindOrCreateFolder(ConversationFolderName(type, name), root.ID).
FolderEnsureConversation(c) ==
    /\ findex.RootFolderID # NoFileID
    /\ findex.Conversations[c].FolderID = NoFileID
    /\ LET name  == ConversationFolderName(fcfg[c].Type, fcfg[c].Name)
           found == FindFiles(ffiles, "folder", name, findex.RootFolderID)
           new   == NewFile(ffiles, "folder", name, findex.RootFolderID)
       IN  \E f \in (IF found # {} THEN found ELSE {new}) :
              /\ ffiles' = ffiles \cup {f}
              /\ findex' = [findex EXCEPT !.Conversations[c].FolderID = f.id]
    /\ UNCHANGED <<fcfg, fwriters>>
    /\ UNCHANGED notFolder

\* The day loop of the export of c for date d: EnsureDailyDoc
\* (FindOrCreateDocument(date, conv.FolderID) when the index has no
\* document), then WriteMessages to the document.
FolderWriteDay(c, d) ==
    /\ findex.Conversations[c].FolderID # NoFileID
    /\ LET folder == findex.Conversations[c].FolderID
           known  == findex.Conversations[c].DailyDocs[d]
           found  == FindFiles(ffiles, "doc", DocTitle(d), folder)
           new    == NewFile(ffiles, "doc", DocTitle(d), folder)
       IN  \E f \in (IF known # NoFileID THEN {g \in ffiles : g.id = known}
                     ELSE IF found # {} THEN found ELSE {new}) :
              /\ ffiles' = ffiles \cup {f}
              /\ findex' = [findex EXCEPT !.Conversations[c].DailyDocs[d] = f.id]
              /\ fwriters' = fwriters \cup {<<f.id, c>>}
    /\ UNCHANGED fcfg
    /\ UNCHANGED notFolder

FolderNext ==
    \/ \E c \in FolderConvs : FolderEnsureRoot(c)
    \/ \E c \in FolderConvs : FolderEnsureConversation(c)
    \/ \E c \in FolderConvs, d \in Dates : FolderWriteDay(c, d)

SpecFolders == FolderInit /\ [][FolderNext]_vars

\* ----------------------------------------------- the export index's lock
\* The export workers of a parallel export, and the conversation each exports.
LockWorkers == {"w1", "w2"}

ConvOf == [w \in LockWorkers |-> IF w = "w1" THEN "C01" ELSE "C02"]

LockConvs == {ConvOf[w] : w \in LockWorkers}

NoWriter == "none"

\* An entry that GetOrCreateConversation has just made, and none.
NewConv == [exists |-> TRUE, FolderID |-> 0, MessageCount |-> 0]

NilConv == [exists |-> FALSE, FolderID |-> 0, MessageCount |-> 0]

\* An entry that an earlier export left in the index file.
OldConv == [exists |-> TRUE, FolderID |-> 1, MessageCount |-> 1]

\* sync.RWMutex: Lock waits for the writer and the readers to leave, RLock
\* for the writer.
CanLock == mu.writer = NoWriter /\ mu.readers = {}

CanRLock == mu.writer = NoWriter

\* The lock w holds at the moment of an access.
HeldBy(w) ==
    IF mu.writer = w THEN "write" ELSE IF w \in mu.readers THEN "read" ELSE "none"

\* Another worker is inside Save, between Lock and Unlock.
SaveSerialising(w) ==
    \E v \in LockWorkers : v # w /\ mu.writer = v /\ lpc[v] \in {"marshal", "unlock"}

Access(w, op, field) ==
    [w |-> w, op |-> op, field |-> field, held |-> HeldBy(w), saving |-> SaveSerialising(w)]

notLock == <<orchVars, poolVars, fetchVars, driveVars, dateVars, threadVars, folderVars, docVars, raceVars, ckVars>>

LockInit ==
    /\ OrchIdle /\ PoolIdle /\ FetcherIdle /\ DriveIdle /\ DateIdle /\ ThreadIdle /\ FolderIdle /\ DocIdle /\ RaceIdle /\ CkIdle
    /\ mu = [writer |-> NoWriter, readers |-> {}]
    /\ lpc = [w \in LockWorkers |-> "start"]
    /\ lidx \in [LockConvs -> {NilConv, OldConv}]
    /\ lfile = lidx
    /\ laccess = {}

\* GetConversation: idx.mu.RLock()
GetConversationRLock(w) ==
    /\ lpc[w] = "start"
    /\ CanRLock
    /\ mu' = [mu EXCEPT !.readers = @ \cup {w}]
    /\ lpc' = [lpc EXCEPT ![w] = "get"]
    /\ UNCHANGED <<lidx, lfile, laccess>>
    /\ UNCHANGED notLock

\* GetConversation: return idx.Conversations[id], and the deferred RUnlock.
GetConversation(w) ==
    /\ lpc[w] = "get"
    /\ laccess' = laccess \cup {Access(w, "read", "Conversations")}
    /\ mu' = [mu EXCEPT !.readers = @ \ {w}]
    /\ lpc' = [lpc EXCEPT ![w] = "check"]
    /\ UNCHANGED <<lidx, lfile>>
    /\ UNCHANGED notLock

\* EnsureConversationFolder: if conv != nil && conv.FolderID != "".
CheckFolderID(w) ==
    /\ lpc[w] = "check"
    /\ LET conv == lidx[ConvOf[w]]
       IN  /\ laccess' = IF conv.exists THEN laccess \cup {Access(w, "read", "FolderID")}
                         ELSE laccess
           /\ lpc' = [lpc EXCEPT ![w] = IF conv.exists /\ conv.FolderID # 0 THEN "day"
                                        ELSE IF conv.exists THEN "setfolder" ELSE "create"]
    /\ UNCHANGED <<mu, lidx, lfile>>
    /\ UNCHANGED notLock

\* GetOrCreateConversation: idx.mu.Lock()
GetOrCreateConversationLock(w) ==
    /\ lpc[w] = "create"
    /\ CanLock
    /\ mu' = [mu EXCEPT !.writer = w]
    /\ lpc' = [lpc EXCEPT ![w] = "creating"]
    /\ UNCHANGED <<lidx, lfile, laccess>>
    /\ UNCHANGED notLock

\* GetOrCreateConversation: the entry is made, and the deferred Unlock.
GetOrCreateConversation(w) ==
    /\ lpc[w] = "creating"
    /\ lidx' = [lidx EXCEPT ![ConvOf[w]] = IF @.exists THEN @ ELSE NewConv]
    /\ laccess' = laccess \cup {Access(w, "write", "Conversations")}
    /\ mu' = [mu EXCEPT !.writer = NoWriter]
    /\ lpc' = [lpc EXCEPT ![w] = "setfolder"]
    /\ UNCHANGED lfile
    /\ UNCHANGED notLock

\* EnsureConversationFolder: conv.FolderID = folder.ID (and URL, Name, Type).
SetFolderID(w) ==
    /\ lpc[w] = "setfolder"
    /\ lidx' = [lidx EXCEPT ![ConvOf[w]].FolderID = 1]
    /\ laccess' = laccess \cup {Access(w, "write", "FolderID")}
    /\ lpc' = [lpc EXCEPT ![w] = "day"]
    /\ UNCHANGED <<mu, lfile>>
    /\ UNCHANGED notLock

\* ExportConversation: the statistics of the day's document and of the
\* conversation, after the messages are written.
UpdateStats(w) ==
    /\ lpc[w] = "day"
    /\ lidx' = [lidx EXCEPT ![ConvOf[w]].MessageCount = @ + 1]
    /\ laccess' = laccess \cup {Access(w, "write", "MessageCount")}
    /\ lpc' = [lpc EXCEPT ![w] = "save"]
    /\ UNCHANGED <<mu, lfile>>
    /\ UNCHANGED notLock

\* Save: idx.mu.Lock()
SaveLock(w) ==
    /\ lpc[w] = "save"
    /\ CanLock
    /\ mu' = [mu EXCEPT !.writer = w]
    /\ lpc' = [lpc EXCEPT ![w] = "marshal"]
    /\ UNCHANGED <<lidx, lfile, laccess>>
    /\ UNCHANGED notLock

\* Save: json.MarshalIndent(idx) and os.WriteFile.
SaveMarshal(w) ==
    /\ lpc[w] = "marshal"
    /\ lfile' = lidx
    /\ laccess' = laccess \cup {Access(w, "read", "Conversations")}
    /\ lpc' = [lpc EXCEPT ![w] = "unlock"]
    /\ UNCHANGED <<mu, lidx>>
    /\ UNCHANGED notLock

\* Save: the deferred Unlock.
SaveUnlock(w) ==
    /\ lpc[w] = "unlock"
    /\ mu' = [mu EXCEPT !.writer = NoWriter]
    /\ lpc' = [lpc EXCEPT ![w] = "done"]
    /\ UNCHANGED <<lidx, lfile, laccess>>
    /\ UNCHANGED notLock

LockNext ==
    \/ \E w \in LockWorkers : GetConversationRLock(w)
    \/ \E w \in LockWorkers : GetConversation(w)
    \/ \E w \in LockWorkers : CheckFolderID(w)
    \/ \E w \in LockWorkers : GetOrCreateConversationLock(w)
    \/ \E w \in LockWorkers : GetOrCreateConversation(w)
    \/ \E w \in LockWorkers : SetFolderID(w)
    \/ \E w \in LockWorkers : UpdateStats(w)
    \/ \E w \in LockWorkers : SaveLock(w)
    \/ \E w \in LockWorkers : SaveMarshal(w)
    \/ \E w \in LockWorkers : SaveUnlock(w)

SpecLock == LockInit /\ [][LockNext]_vars

\* ------------------------------------------------ batch updates of a document
\* Batch updates one process sends to the document.
MaxBatches == 2

NL == "\n"

\* The message blocks of a batch: sender name, timestamp, content.
Blocks ==
    {[SenderName |-> <<"a">>, Timestamp |-> <<"9">>, Content |-> <<"x">>],
     [SenderName |-> <<"b", "o">>, Timestamp |-> <<"9">>, Content |-> <<"y", "z">>]}

BlockSeqs == {<<b>> : b \in Blocks} \cup {<<b, c>> : b, c \in Blocks}

\* The pieces of an InsertFormattedContent call.
FormattedTexts ==
    {[Text |-> <<"p">>, Bold |-> TRUE], [Text |-> <<"q", "r">>, Bold |-> FALSE]}

FormattedSeqs == {<<f>> : f \in FormattedTexts} \cup {<<f, g>> : f, g \in FormattedTexts}

\* utf16Len: the number of UTF-16 units of a text.
utf16Len(s) == Len(s)

InsertText(at, text) == [kind |-> "insertText", index |-> at, text |-> text, last |-> at]

UpdateTextStyle(start, end) == [kind |-> "updateTextStyle", index |-> start, text |-> <<>>, last |-> end]

\* GetDocumentEndIndex: lastElement.EndIndex - 1, the index of the final
\* newline of the body (indexes start at 1).
GetDocumentEndIndex(doc) == IF doc # <<>> THEN (Len(doc) + 1) - 1 ELSE 1

\* Mutant of AppendRequests: every insert is placed at the end index read
\* before the batch.
RECURSIVE AppendRequests_FixedIndex(_, _)
AppendRequests_FixedIndex(messages, currentIndex) ==
    IF messages = <<>> THEN <<>>
    ELSE LET msg    == Head(messages)
             header == msg.SenderName \o <<" ", " ">> \o msg.Timestamp \o <<NL>>
             body   == msg.Content \o <<NL, NL>>
         IN  <<InsertText(currentIndex, header),
               UpdateTextStyle(currentIndex, currentIndex + utf16Len(msg.SenderName)),
               InsertText(currentIndex, body)>>
             \o AppendRequests_FixedIndex(Tail(messages), currentIndex)

\* BatchAppendMessages, the requests of the batch: for every message, in
\* input order, the header is inserted at the running index, its sender
\* name is made bold, and the body is inserted after the header.
RECURSIVE AppendRequests(_, _)
AppendRequests(messages, currentIndex) ==
    IF messages = <<>> THEN <<>>
    ELSE LET msg    == Head(messages)
             header == msg.SenderName \o <<" ", " ">> \o msg.Timestamp \o <<NL>>
             body   == msg.Content \o <<NL, NL>>
         IN  <<InsertText(currentIndex, header),
               UpdateTextStyle(currentIndex, currentIndex + utf16Len(msg.SenderName)),
               InsertText(currentIndex + utf16Len(header), body)>>
             \o AppendRequests(Tail(messages),
                               currentIndex + utf16Len(header) + utf16Len(body))

\* InsertFormattedContent, the requests of the batch: the pieces from the
\* last to the first, each inserted at the same index and styled when it
\* has a format.
RECURSIVE FormattedRequests(_, _)
FormattedRequests(content, at) ==
    IF content = <<>> THEN <<>>
    ELSE LET fc == content[Len(content)]
         IN  <<InsertText(at, fc.Text)>>
             \o (IF fc.Bold THEN <<UpdateTextStyle(at, at + utf16Len(fc.Text))>> ELSE <<>>)
             \o FormattedRequests(SubSeq(content, 1, Len(content) - 1), at)

\* A request is valid for the text it is applied to: an insert lies before
\* the final newline, a style range lies in the text.
ValidRequest(doc, r) ==
    IF r.kind = "insertText" THEN 1 <= r.index /\ r.index <= Len(doc)
    ELSE 1 <= r.index /\ r.index < r.last /\ r.last <= Len(doc) + 1

\* documents.batchUpdate: the requests are applied one after the other, each
\* to the text the earlier ones left; one invalid request fails the batch
\* and nothing is applied.
RECURSIVE ApplyRequests(_, _)
ApplyRequests(doc, requests) ==
    IF requests = <<>> THEN [ok |-> TRUE, doc |-> doc]
    ELSE LET r == Head(requests)
         IN  IF ~ValidRequest(doc, r) THEN [ok |-> FALSE, doc |-> doc]
             ELSE ApplyRequests(
                      IF r.kind = "insertText"
                      THEN SubSeq(doc, 1, r.index - 1) \o r.text \o SubSeq(doc, r.index, Len(doc))
                      ELSE doc,
                      Tail(requests))

BatchUpdate(doc, requests) ==
    LET res == ApplyRequests(doc, requests)
    IN  IF res.ok THEN res ELSE [ok |-> FALSE, doc |-> doc]

notDoc == <<orchVars, poolVars, fetchVars, driveVars, dateVars, threadVars, folderVars, lockVars, raceVars, ckVars>>

\* A new document: its body is one newline.
DocInit ==
    /\ OrchIdle /\ PoolIdle /\ FetcherIdle /\ DriveIdle /\ DateIdle /\ ThreadIdle /\ FolderIdle /\ LockIdle /\ RaceIdle /\ CkIdle
    /\ gdoc = <<NL>>
    /\ gbatch = [n |-> 0, op |-> "none", texts |-> <<>>, requests |-> <<>>, before |-> <<>>,
                 index |-> 0, ok |-> TRUE]

\* BatchAppendMessages(ctx, docID, messages)
DocBatchAppend(messages) ==
    /\ gbatch.n < MaxBatches
    /\ LET endIndex == GetDocumentEndIndex(gdoc)
           requests == AppendRequests(messages, endIndex)
           res      == BatchUpdate(gdoc, requests)
       IN  /\ gdoc' = res.doc
           /\ gbatch' = [n |-> gbatch.n + 1, op |-> "append",
                         texts |-> Flatten([i \in 1 .. Len(messages) |->
                                      <<messages[i].SenderName \o <<" ", " ">>
                                            \o messages[i].Timestamp \o <<NL>>,
                                        messages[i].Content \o <<NL, NL>>>>]),
                         requests |-> requests, before |-> gdoc, index |-> endIndex,
                         ok |-> res.ok]
    /\ UNCHANGED notDoc

\* InsertFormattedContent(ctx, docID, content, index), the index at in the body.
DocInsertFormatted(content, at) ==
    /\ gbatch.n < MaxBatches
    /\ LET requests == FormattedRequests(content, at)
           res      == BatchUpdate(gdoc, requests)
       IN  /\ gdoc' = res.doc
           /\ gbatch' = [n |-> gbatch.n + 1, op |-> "insert",
                         texts |-> [i \in 1 .. Len(content) |-> content[i].Text],
                         requests |-> requests, before |-> gdoc, index |-> at,
                         ok |-> res.ok]
    /\ UNCHANGED notDoc

DocNext ==
    \/ \E messages \in BlockSeqs : DocBatchAppend(messages)
    \/ \E content \in FormattedSeqs : \E at \in 1 .. Len(gdoc) :
          DocInsertFormatted(content, at)

SpecDocs == DocInit /\ [][DocNext]_vars

\* --------------------------------------------- concurrent find-or-create
\* The export workers of a parallel export that ask for the same artefact.
RaceWorkers == {"w1", "w2"}

NoCall == [pc |-> "find", id |-> 0, created |-> FALSE]

notRace == <<orchVars, poolVars, fetchVars, driveVars, dateVars, threadVars, folderVars, lockVars, docVars, ckVars>>

\* Both workers are about to call FindOrCreateFolder / FindOrCreateDocument
\* with the same name and parent; the Drive holds no file, or files of
\* other names.
RaceInit ==
    /\ OrchIdle /\ PoolIdle /\ FetcherIdle /\ DriveIdle /\ DateIdle /\ ThreadIdle /\ FolderIdle /\ LockIdle /\ DocIdle /\ CkIdle
    /\ rargs \in [kind : DriveKinds, name : {"a"}, parent : DriveParents]
    /\ rfiles \in SUBSET {CreateFile({}, k, "b", "") : k \in DriveKinds}
    /\ rcall = [w \in RaceWorkers |-> NoCall]

\* FindFolder / FindDocument of worker w: a file found is returned, else the
\* call goes on to create.
RaceFind(w) ==
    /\ rcall[w].pc = "find"
    /\ LET found == FindFile(rfiles, rargs.kind, rargs.name, rargs.parent)
       IN  IF found = {}
           THEN rcall' = [rcall EXCEPT ![w].pc = "create"]
           ELSE \E f \in found : rcall' = [rcall EXCEPT ![w] = [pc |-> "done", id |-> f.id,
                                                                created |-> FALSE]]
    /\ UNCHANGED <<rargs, rfiles>>
    /\ UNCHANGED notRace

\* CreateFolder / CreateDocument of worker w.
RaceCreate(w) ==
    /\ rcall[w].pc = "create"
    /\ LET f == CreateFile(rfiles, rargs.kind, rargs.name, rargs.parent)
       IN  /\ rfiles' = rfiles \cup {f}
           /\ rcall' = [rcall EXCEPT ![w] = [pc |-> "done", id |-> f.id, created |-> TRUE]]
    /\ UNCHANGED rargs
    /\ UNCHANGED notRace

\* The create call of worker w fails: the call returns the error.
RaceCreateError(w) ==
    /\ rcall[w].pc = "create"
    /\ rcall' = [rcall EXCEPT ![w].pc = "error"]
    /\ UNCHANGED <<rargs, rfiles>>
    /\ UNCHANGED notRace

RaceNext ==
    \/ \E w \in RaceWorkers : RaceFind(w)
    \/ \E w \in RaceWorkers : RaceCreate(w)
    \/ \E w \in RaceWorkers : RaceCreateError(w)

SpecRace == RaceInit /\ [][RaceNext]_vars

\* ------------------------------------------------------------- checkpoint
\* UpdateConversation calls one process makes.
MaxUpdates == 3

CkConvs == {"C01", "C02"}

Unlocked == "unlocked"

NoConvCheckpoint == [present |-> FALSE, LastTimestamp |-> NoTS, MessageCount |-> 0,
                     Completed |-> FALSE]

\* CheckpointData as NewCheckpoint and Reset make it.
EmptyCheckpoint ==
    [Conversations |-> [c \in CkConvs |-> NoConvCheckpoint], CompletedConvs |-> <<>>,
     ExportedMessages |-> 0, dirty |-> FALSE]

contains(slice, item) == \E i \in 1 .. Len(slice) : slice[i] = item

\* UpdateConversation, under the lock: the entry is replaced, the id is
\* appended to the completed list when completed and not yet in it.
UpdateData(data, convID, lastTS, msgCount, completed) ==
    [data EXCEPT
        !.Conversations[convID] =
            [present |-> TRUE, LastTimestamp |-> lastTS,
             MessageCount |-> @.MessageCount + msgCount, Completed |-> completed],
        !.CompletedConvs = IF completed /\ ~contains(@, convID) THEN Append(@, convID) ELSE @,
        !.ExportedMessages = @ + msgCount,
        !.dirty = TRUE]

IsConversationCompleted(data, convID) ==
    IF data.Conversations[convID].present THEN data.Conversations[convID].Completed ELSE FALSE

\* GetStats: the numbers of completed and of known conversations.
GetStats(data) ==
    <<Len(data.CompletedConvs),
      Cardinality({c \in CkConvs : data.Conversations[c].present})>>

notCk == <<orchVars, poolVars, fetchVars, driveVars, dateVars, threadVars, folderVars, lockVars, docVars, raceVars>>

\* NewCheckpoint in a directory with no checkpoint file.
CkInit ==
    /\ OrchIdle /\ PoolIdle /\ FetcherIdle /\ DriveIdle /\ DateIdle /\ ThreadIdle /\ FolderIdle /\ LockIdle /\ DocIdle /\ RaceIdle
    /\ ckmu = Unlocked
    /\ ckpc = "idle"
    /\ ckdata = EmptyCheckpoint
    /\ ckfile = EmptyCheckpoint
    /\ ckcalls = 0

\* UpdateConversation(convID, convName, lastTS, msgCount, completed): Lock,
\* the update, and the deferred Unlock.
CkUpdateConversation(convID, lastTS, msgCount, completed) ==
    /\ ckpc = "idle"
    /\ ckmu = Unlocked
    /\ ckcalls < MaxUpdates
    /\ ckcalls' = ckcalls + 1
    /\ ckdata' = UpdateData(ckdata, convID, lastTS, msgCount, completed)
    /\ UNCHANGED <<ckmu, ckpc, ckfile>>
    /\ UNCHANGED notCk

\* Save is called by the user of the checkpoint.
CkCallSave ==
    /\ ckpc = "idle"
    /\ ckpc' = "save"
    /\ UNCHANGED <<ckmu, ckdata, ckfile, ckcalls>>
    /\ UNCHANGED notCk

\* Save: c.mu.Lock(), whoever called Save.
CkSaveLock ==
    /\ ckpc \in {"save", "reset"}
    /\ ckmu = Unlocked
    /\ ckmu' = "Save"
    /\ ckpc' = IF ckpc = "save" THEN "saving" ELSE "resetsaving"
    /\ UNCHANGED <<ckdata, ckfile, ckcalls>>
    /\ UNCHANGED notCk

\* Save under its lock: nothing when not dirty, else the file is written
\* (temp file and rename); then the deferred Unlock, and Save returns.
CkSave ==
    /\ ckpc \in {"saving", "resetsaving"}
    /\ IF ckdata.dirty
       THEN /\ ckfile' = [ckdata EXCEPT !.dirty = FALSE]
            /\ ckdata' = [ckdata EXCEPT !.dirty = FALSE]
       ELSE UNCHANGED <<ckdata, ckfile>>
    /\ ckmu' = Unlocked
    /\ ckpc' = IF ckpc = "saving" THEN "idle" ELSE "resetdone"
    /\ UNCHANGED ckcalls
    /\ UNCHANGED notCk

\* Reset: c.mu.Lock(), the data cleared and marked dirty; Save is called
\* next, with the lock still held (its Unlock is deferred).
CkReset ==
    /\ ckpc = "idle"
    /\ ckmu = Unlocked
    /\ ckmu' = "Reset"
    /\ ckdata' = [EmptyCheckpoint EXCEPT !.dirty = TRUE]
    /\ ckpc' = "reset"
    /\ UNCHANGED <<ckfile, ckcalls>>
    /\ UNCHANGED notCk

CkNext ==
    \/ \E convID \in CkConvs, lastTS \in {1, 2}, msgCount \in {0, 1}, completed \in BOOLEAN :
          CkUpdateConversation(convID, lastTS, msgCount, completed)
    \/ CkCallSave
    \/ CkSaveLock
    \/ CkSave
    \/ CkReset

\* The goroutine that uses the checkpoint runs whenever it can.
SpecCheckpoint == CkInit /\ [][CkNext]_vars /\ WF_vars(CkNext)

\* ------------------------------------------------------------- properties
NoDup(s) == \A i, j \in 1 .. Len(s) : i # j => s[i] # s[j]

Exporting == pc \in {"fetch", "write", "update", "save"}

\* The messages a step appended to document id.
Appended(id) ==
    {driveDocs'[id].body[i] : i \in (Len(driveDocs[id].body) + 1) .. Len(driveDocs'[id].body)}

\* C1: when Save is aborted during the write, the index file equals its
\* content from before the write began (never a truncated or partial file).
C1_CrashSafety == [][(pc = "save" /\ pc' = "idle") => disk' = preSave]_vars

\* C2: over any sequence of export runs, interrupted or not, the daily
\* documents of a conversation contain every message at most once.
C2_AtMostOnce == \A id \in DocIDs : NoDup(driveDocs[id].body)

\* C3: the index is persisted after each daily document's write and before
\* the next daily document is processed: when the day loop turns to the next
\* date, the index file holds the DocRef of every date already written.
C3_SavedAfterEachDoc ==
    (pc = "write" /\ written # {}) =>
        /\ disk.state = "ok"
        /\ \A d \in written : disk.idx.Conversations[cur].DailyDocs[d] = index.Conversations[cur].DailyDocs[d]

\* C4: a daily document that is already in the index is reused (same
\* document id) and receives only the messages newer than its DocRef's
\* recorded last_message_ts.
C4_AppendOnlyNewer ==
    [][(pc = "write" /\ pc' \in {"write", "update"}) =>
          LET ref == index.Conversations[cur].DailyDocs[Head(dates)]
          IN  ref.DocID # NoID =>
                /\ index'.Conversations[cur].DailyDocs[Head(dates)].DocID = ref.DocID
                /\ \A t \in Appended(ref.DocID) : t > ref.LastMessageTS]_vars

\* C5: the last_message_ts recorded for a conversation and for each of its
\* daily DocRefs never decreases, within a run and from what a run loaded.
C5_MonotoneProgress ==
    [][(pc \in Running /\ pc' \in Running) =>
          \A c \in Convs :
            /\ index'.Conversations[c].LastMessageTS >= index.Conversations[c].LastMessageTS
            /\ \A d \in Dates :
                 index'.Conversations[c].DailyDocs[d].LastMessageTS >= index.Conversations[c].DailyDocs[d].LastMessageTS]_vars

\* C6: once a conversation export that fetched at least one message has
\* updated the conversation state and returned without error, the
\* conversation's last_message_ts is the greatest ts fetched in that run.
C6_LastTSIsGreatestSeen ==
    ((pc = "save" \/ (pc = "next" /\ cur # "none" /\ results[cur] = "ok"))
        /\ allMessages # <<>>)
    => index.Conversations[cur].LastMessageTS = Max(Range(allMessages))

C6_Witness ==
    /\ pc = "next" /\ cur # "none" /\ results[cur] = "ok"
    /\ Len(allMessages) > PageLimit
    /\ disk.state = "ok" /\ disk.idx.Conversations[cur].LastMessageTS = Max(Range(allMessages))

\* C7: a conversation is in the index with status in_progress once its
\* folder is ensured, and an export that finishes with no error leaves the
\* persisted status complete.
C7_StatusLifecycle ==
    /\ Exporting => index.Conversations[cur].Status = "in_progress"
    /\ (pc = "next" /\ cur # "none" /\ results[cur] = "ok" /\ disk.state = "ok")
         => disk.idx.Conversations[cur].Status = "complete"

C9_SyncAfterComplete ==
    [][(syncMode /\ pc \in {"fetch", "write"} /\ index.Conversations[cur].LastMessageTS # NoTS) =>
          /\ \A id \in DocIDs : \A t \in Appended(id) : t > index.Conversations[cur].LastMessageTS
          /\ (pc' = "next" /\ allMessages' = <<>> /\ results'[cur] = "ok") =>
                /\ \A id \in DocIDs : driveDocs'[id].exists = driveDocs[id].exists
                /\ index'.Conversations[cur].Status = "complete"]_vars

\* The part of C9 that does not depend on the status field: a sync-mode
\* run exports only messages newer than the recorded last_message_ts, and
\* creates no document when there is none.
SyncOnlyNewer ==
    [][(syncMode /\ pc \in {"fetch", "write"} /\ index.Conversations[cur].LastMessageTS # NoTS) =>
          /\ \A id \in DocIDs : \A t \in Appended(id) : t > index.Conversations[cur].LastMessageTS
          /\ (pc' = "next" /\ allMessages' = <<>> /\ results'[cur] = "ok") =>
                /\ \A id \in DocIDs : driveDocs'[id].exists = driveDocs[id].exists
                /\ index'.Conversations[cur].Status = index.Conversations[cur].Status]_vars

\* C10: sync mode and explicit from/to bounds are mutually exclusive: no
\* conversation export runs with sync mode on and a from or to bound set.
C10_SyncExcludesBounds ==
    pc \in Running => ~(syncMode /\ (dateFrom # NoTS \/ dateTo # NoTS))

C10_Witness == pc = "write" /\ syncMode /\ dateFrom = NoTS /\ dateTo = NoTS

\* The conversations of the list that ExportAll has already gone through.
Processed == SubSeq(toExport, 1, Len(toExport) - Len(queue))

\* C16: whenever ExportAll is between two conversations, every conversation
\* it has gone through has its result recorded (a failure as an error in that
\* result) and the conversations still to export are exactly the rest of the
\* list: a failure drops none of them.
C16_FailureIsolated ==
    pc = "next" =>
        /\ Len(queue) <= Len(toExport)
        /\ queue = SubSeq(toExport, Len(toExport) - Len(queue) + 1, Len(toExport))
        /\ \A i \in 1 .. Len(Processed) : results[Processed[i]] # "none"

C16_Witness ==
    /\ pc = "next" /\ queue = <<>> /\ toExport = <<"c1", "c2">>
    /\ results["c1"] = "error" /\ results["c2"] = "ok"
    /\ \E d \in Dates : driveDocs[<<"c2", d>>].body # <<>>

\* C17: ExportAll returns a run-level error ("export failed") only when no
\* conversation of the run has succeeded.
C17_RunErrorOnlyIfNoneSucceeded ==
    [][(exit' = "export_failed" /\ exit # "export_failed") =>
          \A c \in Convs : results[c] # "ok"]_vars

C17_Witness == exit = "export_failed" /\ runs = MaxRuns /\ disk.state = "ok"

\* C18: a failure to write the export index ends the run with an error; the
\* run does not go on and the conversation is not reported as exported.
C18_IndexWriteFatal ==
    [][(SaveWriteError \/ FinishConversationSaveError) =>
          (pc' = "idle" /\ exit' \notin {"none", "ok"} /\ results'[cur] # "ok")]_vars

\* C19: a cancelled run ends with a non-zero status and with the index file
\* holding the index as it is in memory, i.e. the progress made is saved.
C19_CancelSavesIndex ==
    [][(cancelled /\ pc = "next" /\ pc' = "idle" /\ exit' # "killed") =>
          /\ exit' # "ok"
          /\ LoadOK(disk') /\ LoadExportIndex(disk') = index]_vars

\* C12: a request answered with 429 is retried with the same options (the
\* cursor does not move and nothing is delivered for it), and a fetch that
\* returns without error has delivered exactly the messages that the same
\* fetch delivers when no request is rate limited.
C12_RetrySameCursor ==
    [][/\ (flast' = "429" /\ fpc' = "wait") => (fopts' = fopts /\ fbatches' = fbatches)
       /\ (fpc = "wait" /\ fpc' = "request") => (fopts' = fopts /\ fbatches' = fbatches)
       /\ (fpc' = "returned" /\ fret' = NoErr) =>
             Flatten(fbatches') = FetchAll(fchan, fopts.Oldest, NoTS)]_vars

C12_Witness ==
    /\ fpc = "returned" /\ fret = NoErr /\ fretried
    /\ Len(fbatches) > 1
    /\ Flatten(fbatches) = FetchAll(fchan, fopts.Oldest, NoTS)

\* C13: a rate-limit error never reaches the caller of the fetch, and the
\* fetch always returns: it does not retry forever when every request is
\* rate limited.
C13_RetryBudget ==
    /\ [](fpc = "returned" => ~IsRateLimitError(fret))
    /\ (fpc = "request") ~> (fpc = "returned")

\* C14: once a request is answered with an authentication code the fetch
\* has returned (it sends no further request) and its error is an AuthError
\* carrying that code.
C14_AuthNotRetried ==
    flast \in AuthCodes =>
        /\ fpc = "returned"
        /\ fret.type = "AuthError" /\ fret.Code = flast /\ IsAuthError(fret)

C14_Witness ==
    /\ flast = "token_revoked" /\ fpc = "returned" /\ fret.type = "AuthError"
    /\ fbatches # <<>>

\* C15: the four not-found codes reach the caller as a NotFoundError (of
\* the channel, user, thread or message), every code that is neither an
\* authentication code nor ratelimited as an APIError with the same code.
C15_NotFoundAndVerbatim ==
    /\ flast \in NotFoundCodes =>
          /\ fpc = "returned" /\ fret.type = "NotFoundError" /\ IsNotFoundError(fret)
          /\ flast = fret.ResourceType \o "_not_found"
    /\ flast \in ErrorCodes \ (NotFoundCodes \cup AuthCodes \cup {"ratelimited"}) =>
          /\ fpc = "returned" /\ fret.type = "APIError" /\ fret.Code = flast

C15_Witness ==
    flast = "thread_not_found" /\ fret.type = "NotFoundError" /\ fret.ResourceType = "thread"

\* C11: at no time are more than 5 conversation exports in progress,
\* whatever parallelism the caller of the parallel export asked for.
C11_AtMostFiveInProgress == Cardinality(InProgress) <= 5

C11_Witness ==
    /\ maxParallel > 5 /\ Cardinality(InProgress) = 5
    /\ \E i \in PoolConvs : convState[i] = "pending"

\* Two calls that returned, with the same kind, name and parent.
SameCall(i, j) ==
    /\ dlog[i].kind = dlog[j].kind /\ dlog[i].name = dlog[j].name
    /\ dlog[i].parent = dlog[j].parent

\* C20: two find-or-create calls of a process with the same (name, parent)
\* return the same identifier, and the second creates nothing.
C20_FindOrCreateIdempotent ==
    \A i, j \in 1 .. Len(dlog) :
        (i < j /\ SameCall(i, j)) => (dlog[j].id = dlog[i].id /\ ~dlog[j].created)

\* C20 for the calls that name a parent folder.
FindOrCreateIdempotentInParent ==
    \A i, j \in 1 .. Len(dlog) :
        (i < j /\ SameCall(i, j) /\ dlog[i].parent # "") =>
            (dlog[j].id = dlog[i].id /\ ~dlog[j].created)

\* The messages of conversation c that were exported.
ExportedTSs(c) ==
    IF c \in DOMAIN dateIndex
    THEN UNION {dateDocs[dateIndex[c].DailyDocs[d].DocURL] : d \in DOMAIN dateIndex[c].DailyDocs}
    ELSE {}

\* C23: the date key under which a message is grouped into a daily document
\* (and looked up) is the UTC calendar day of floor(ts), whatever the time
\* zone of the machine.
C23_DateKeyIsUTC ==
    \A c \in DOMAIN dateIndex : \A d \in DOMAIN dateIndex[c].DailyDocs :
        \A t \in dateDocs[dateIndex[c].DailyDocs[d].DocURL] :
            d = Format(parseSeconds(t, 1, 0) \div 86400)

C25_LookupDocURL ==
    [][dlook' # dlook =>
         LET c  == dlook'.conv
             ts == dlook'.ts
         IN  /\ c \notin DOMAIN dateIndex => dlook'.url = NoURL
             /\ c \in DOMAIN dateIndex =>
                  /\ ts \in ExportedTSs(c) => (dlook'.url \in DOMAIN dateDocs /\ ts \in dateDocs[dlook'.url])
                  /\ (\E d \in DOMAIN dateIndex[c].DailyDocs : d = tsToDate(ts, zone))
                        => dlook'.url = DocURL(c, tsToDate(ts, zone))
                  /\ (\A d \in DOMAIN dateIndex[c].DailyDocs : d # tsToDate(ts, zone))
                        => dlook'.url = FolderURL(c)]_vars

C25_Witness ==
    /\ dlook.conv = "C1" /\ dlook.ts = TS_nextDay /\ zone = 19800
    /\ dlook.url = DocURL("C1", <<2024, 2, 2>>)
    /\ TS_nextDay \in dateDocs[dlook.url]
    /\ "D1" \in DOMAIN dateIndex /\ TS_nextDay \notin ExportedTSs("D1")

\* C27: every DocRef with a non-zero message_count has a last_message_ts
\* that is not earlier than any message written to its document (after a
\* day's batch it is the greatest ts of the day).
C27_LastTSCoversDoc ==
    \A c \in Convs, d \in Dates :
        LET ref == index.Conversations[c].DailyDocs[d]
        IN  ref.MessageCount > 0 =>
                \A t \in Range(driveDocs[ref.DocID].body) : ref.LastMessageTS >= t

\* C28: a conversation whose export failed is persisted with the status
\* in_progress (there is no failed status), and no step of a run takes a
\* persisted status from complete back to in_progress.
C28_ErrorStaysInProgress ==
    /\ \A c \in Convs :
          (results[c] = "error" /\ disk.state = "ok" /\ disk.idx.Conversations[c].FolderID # NoID)
              => disk.idx.Conversations[c].Status = "in_progress"
    /\ \A c \in Convs :
          (disk.state = "ok" /\ disk.idx.Conversations[c].FolderID # NoID)
              => disk.idx.Conversations[c].Status # "failed"

RECURSIVE IsSubseq(_, _)
IsSubseq(a, b) ==
    IF a = <<>> THEN TRUE
    ELSE IF b = <<>> THEN FALSE
    ELSE IF Head(a) = Head(b) THEN IsSubseq(Tail(a), Tail(b))
    ELSE IsSubseq(a, Tail(b))

\* The timestamps of the blocks of the documents of a folder, the documents
\* taken by ascending date.
RECURSIVE FolderBody(_, _)
FolderBody(folder, ds) ==
    IF ds = <<>> THEN <<>>
    ELSE LET id   == folder \o <<Head(ds)>>
             body == IF id \in DOMAIN tdocs THEN tdocs[id] ELSE <<>>
         IN  [i \in 1 .. Len(body) |-> body[i].TS] \o FolderBody(folder, Tail(ds))

ThreadDates == SortAsc({DateFromTS(t) : t \in ThreadTSs})

\* The run (or the last run) has gone through the day loop of the main
\* messages.
MainWritten == tpc = "threads" \/ (tpc = "idle" /\ tall # <<>>)

\* C21: the thread daily documents of every exported thread parent contain,
\* in ts order, every message that conversations.replies serves for the
\* thread over all its pages (and after a first export nothing else).
C21_ThreadComplete ==
    \A p \in DOMAIN tindex :
        tindex[p].ReplyCount > 0 =>
            LET served == SortAsc({p} \cup RepliesOf(tslack, p))
                body   == FolderBody(<<"thread", p>>, ThreadDates)
            IN  /\ IsSubseq(served, body)
                /\ truns = 1 => body = served

C21_Witness ==
    /\ tpc = "idle" /\ truns = 1
    /\ 1 \in DOMAIN tindex /\ tindex[1].ReplyCount = 3
    /\ Len(tdocs[<<"thread", 1, 0>>]) = 1 /\ Len(tdocs[<<"thread", 1, 1>>]) = 2

\* C22: once a run has exported a thread parent, the parent's entry in its
\* main daily document carries the "View Thread" link to the thread's folder.
C22_ViewThreadLink ==
    (tpc = "idle" /\ truns > 0) =>
        \A i \in 1 .. Len(tall) :
            (tall[i].ReplyCount > 0 /\ tall[i].TS \in DOMAIN tindex
                /\ tindex[tall[i].TS].ReplyCount > 0) =>
                \E j \in 1 .. Len(tdocs[<<"main", DateFromTS(tall[i].TS)>>]) :
                    LET b == tdocs[<<"main", DateFromTS(tall[i].TS)>>][j]
                    IN  b.TS = tall[i].TS /\ b.Link = ThreadFolderURL(tall[i].TS)

\* C26: the messages of the conversation's daily documents are exactly the
\* fetched messages with no thread_ts or with thread_ts = ts; no reply-only
\* message of the fetched slice is among them.
C26_MainMessagesOnly ==
    MainWritten =>
        LET body == FolderBody(<<"main">>, ThreadDates)
        IN  /\ Range(body) = {t \in ThreadTSs : tslack[t].k = "main"}
            /\ \A i \in 1 .. Len(tall) :
                  (tall[i].ThreadTS # NoTS /\ tall[i].ThreadTS # tall[i].TS)
                      => tall[i].TS \notin Range(body)
            /\ \A i \in 1 .. Len(tall) :
                  (tall[i].ThreadTS = NoTS \/ tall[i].ThreadTS = tall[i].TS)
                      => tall[i].TS \in Range(body)

C26_Witness ==
    /\ tpc = "threads"
    /\ Len(tall) = 3 /\ tall[1].ThreadTS = 1 /\ tall[2].ThreadTS = NoTS /\ tall[3].ThreadTS = 1
    /\ FolderBody(<<"main">>, ThreadDates) = <<1, 2>>

\* C29: every document is written by the export of one conversation only:
\* no two distinct configured conversations resolve to the same daily
\* document.
C29_OneConversationPerDoc ==
    /\ \A x, y \in fwriters : x[1] = y[1] => x[2] = y[2]
    /\ \A c1, c2 \in DOMAIN fcfg : \A d \in Dates :
          (c1 # c2 /\ findex.Conversations[c1].DailyDocs[d] # NoFileID)
              => findex.Conversations[c1].DailyDocs[d] # findex.Conversations[c2].DailyDocs[d]

\* C30: every write of an index field happens with the index's write lock
\* held and every read with at least its read lock held, and no field is
\* written while another worker's Save is serialising the index.
C30_AccessUnderLock ==
    \A a \in laccess :
        /\ a.op = "write" => a.held = "write"
        /\ a.op = "read" => a.held \in {"read", "write"}
        /\ a.op = "write" => ~a.saving

\* C31: the wait before the retry of a request answered with HTTP 429 is
\* the seconds of the Retry-After header, one second without a header, and
\* sixty seconds at most.
C31_BackoffWait ==
    [][\A h \in RetryAfterHeaders :
          FetchAnswerRateLimited(h) =>
              /\ fpc' = "wait"
              /\ fret'.RetryAfter = (IF h = <<>> THEN 1 ELSE IF h[1] > 60 THEN 60 ELSE h[1])]_vars

IsPrefix(a, b) == Len(a) <= Len(b) /\ SubSeq(b, 1, Len(a)) = a

\* The pages the server serves for a history from cursor cu on, in server
\* order, the empty ones left out.
RECURSIVE ServedPages(_, _, _)
ServedPages(c, o, cu) ==
    LET resp == GetConversationHistory(c, o, NoTS, cu)
    IN  (IF resp.Messages # <<>> THEN <<resp.Messages>> ELSE <<>>) \o
        (IF resp.HasMore /\ resp.NextCursor # NoTS THEN ServedPages(c, o, resp.NextCursor)
         ELSE <<>>)

\* C32: every batch passed to the callback is non-empty; the batches passed
\* are the non-empty pages served, in server order: a prefix of them while
\* the fetch runs, all of them when it returns without error; and a fetch
\* that has returned sends no further request.
C32_FetchUntilLastPage ==
    [][/\ \A i \in 1..Len(fbatches') : fbatches'[i] # <<>>
       /\ fpc' # "idle" => IsPrefix(fbatches', ServedPages(fchan', fopts'.Oldest, NoTS))
       /\ (fpc' = "returned" /\ fret' = NoErr) =>
              fbatches' = ServedPages(fchan', fopts'.Oldest, NoTS)
       /\ (fpc = "request" /\ fbatches' # fbatches) =>
              LET resp == GetConversationHistory(fchan, fopts.Oldest, NoTS, fopts.Cursor)
              IN  IF resp.HasMore /\ resp.NextCursor # NoTS
                  THEN fpc' = "request" /\ fopts'.Cursor = resp.NextCursor
                  ELSE fpc' = "returned" /\ fret' = NoErr
       /\ fpc = "returned" => UNCHANGED fetchVars]_vars

C32_Witness ==
    /\ fpc = "returned" /\ fret = NoErr /\ ~fretried
    /\ Len(fbatches) = 2 /\ Len(fbatches[1]) = PageLimit
    /\ fbatches = ServedPages(fchan, fopts.Oldest, NoTS)

\* C37: when the context is cancelled during the backoff after a 429, the
\* next step of the fetch is its return with the context's error: no
\* request is sent, the callback is not called, and the fetch stays
\* returned.
C37_CancelDuringBackoff ==
    [][/\ (fpc = "wait" /\ fctx /\ fetchVars' # fetchVars) =>
              /\ fpc' = "returned" /\ fret' = Canceled
              /\ fbatches' = fbatches /\ flast' = flast /\ fopts' = fopts
       /\ (fpc = "returned" /\ fret = Canceled) => UNCHANGED fetchVars]_vars

C37_Witness ==
    /\ fpc = "returned" /\ fret = Canceled /\ fctx
    /\ flast = "429" /\ fretried /\ Len(fbatches) = 1

\* C33: the messages of every daily document are in strictly ascending ts
\* order, after every run.
C33_StrictlyAscending ==
    \A id \in DocIDs :
        LET body == driveDocs[id].body
        IN  \A i \in 1..(Len(body) - 1) : body[i] < body[i + 1]

\* C38: after the write of a day's document, the message_count of its
\* DocRef is the number of messages the document holds (all that the runs
\* so far have written into it).
C38_CountMatchesDocument ==
    [][(pc = "write" /\ written' \ written # {}) =>
          LET ref == index'.Conversations[cur].DailyDocs[Head(dates)]
          IN  ref.MessageCount = Len(driveDocs'[ref.DocID].body)]_vars

\* C34: every thread link in a daily document of the main messages refers
\* to a thread folder that the index file records (the folder was created
\* and the index saved before the link was written).
C34_LinkedFolderPersisted ==
    \A d \in Range(ThreadDates) :
        LET body == IF <<"main", d>> \in DOMAIN tdocs THEN tdocs[<<"main", d>>] ELSE <<>>
        IN  \A i \in 1 .. Len(body) :
                body[i].Link # NoURL =>
                    /\ body[i].TS \in DOMAIN tdisk
                    /\ tdisk[body[i].TS].FolderURL = body[i].Link

C34_Witness ==
    /\ truns = 2 /\ tpc = "threads"
    /\ \E d \in Range(ThreadDates) :
          /\ <<"main", d>> \in DOMAIN tdocs
          /\ \E i \in 1 .. Len(tdocs[<<"main", d>>]) : tdocs[<<"main", d>>][i].Link # NoURL

\* The texts of the insert requests of a batch, in the order of the requests.
InsertedTexts(requests) ==
    LET ins == SelectSeq(requests, LAMBDA r : r.kind = "insertText")
    IN  [i \in 1 .. Len(ins) |-> ins[i].text]

Reverse(s) == [i \in 1 .. Len(s) |-> s[Len(s) + 1 - i]]

\* The batch was applied and left its texts in the document in input order,
\* at the index of the call.
BatchInInputOrder ==
    /\ gbatch.ok
    /\ gdoc = SubSeq(gbatch.before, 1, gbatch.index - 1) \o Flatten(gbatch.texts)
              \o SubSeq(gbatch.before, gbatch.index, Len(gbatch.before))

\* C35 as stated: the inserts of every batch, of BatchAppendMessages too,
\* are emitted in reverse order, and the batch leaves the texts in input
\* order.
C35_InsertsInReverseOrder ==
    gbatch.op # "none" =>
        /\ InsertedTexts(gbatch.requests) = Reverse(gbatch.texts)
        /\ BatchInInputOrder

\* C35: the inserts of InsertFormattedContent are emitted in reverse order
\* at one index, those of BatchAppendMessages in input order at an index
\* that advances by the length of the text inserted before; either way
\* every request is valid when it is applied and the batch leaves the
\* texts in the document in input order.
C35_BatchKeepsInputOrder ==
    /\ gbatch.op = "insert" =>
          /\ InsertedTexts(gbatch.requests) = Reverse(gbatch.texts)
          /\ \A i \in 1 .. Len(gbatch.requests) : gbatch.requests[i].index = gbatch.index
          /\ BatchInInputOrder
    /\ gbatch.op = "append" =>
          /\ InsertedTexts(gbatch.requests) = gbatch.texts
          /\ BatchInInputOrder

C35_Witness ==
    /\ gbatch.op = "append" /\ gbatch.n = 2 /\ gbatch.ok
    /\ Len(gbatch.texts) = 4 /\ Len(gbatch.before) > 1
    /\ BatchInInputOrder

\* C36: when both workers' find-or-create calls for the same name and
\* parent have returned, one artefact of that name exists in the parent and
\* both calls returned its id.
C36_ConcurrentFindOrCreate ==
    (\A w \in RaceWorkers : rcall[w].pc = "done") =>
        /\ Cardinality(FindFile(rfiles, rargs.kind, rargs.name, rargs.parent)) = 1
        /\ \A v, w \in RaceWorkers : rcall[v].id = rcall[w].id

\* C39: Reset always terminates: once called it has cleared the data,
\* written the empty checkpoint and returned.
C39_ResetTerminates ==
    (ckpc = "reset") ~> (ckpc = "idle" /\ ckfile = EmptyCheckpoint)

\* C40: a conversation id is in the completed list that GetStats counts if
\* and only if IsConversationCompleted is true for it.
C40_CompletedListMatches ==
    \A c \in CkConvs :
        contains(ckdata.CompletedConvs, c) <=> IsConversationCompleted(ckdata, c)

====
